---- MODULE Spec2Model ----
(***************************************************************************)
(* Model of the Trebis workflow object (src/src/TrelloUI.ts, class Trebis, *)
(* lines 233-677) with the date helpers of src/src/utils.ts and the board  *)
(* service seen through TrelloApi / Request.                               *)
(*                                                                         *)
(* Texts (list names, card names, descriptions) are sequences of one-      *)
(* character strings, so that splitting, parsing and formatting are        *)
(* computed character by character as the code does.                       *)
(* A calendar instant is a day number (days since 1970-01-01, local        *)
(* midnight, no daylight-saving shift); a JS Date value is a record        *)
(* [k, t] with k = "null" (no object), "invalid" (NaN time) or "date".     *)
(***************************************************************************)
EXTENDS Integers, Sequences, FiniteSets, TLC

(***************************************************************************)
(* Bounds of the model.                                                    *)
(***************************************************************************)
\* longest sequence of cards in yesterday's list
MaxCards == 2
\* most requests that do not succeed, over the runs one after the other
MaxFaults == 1
\* most lists of a board the statistics walk over
MaxLists == 3
\* most handlers started that run interleaved
MaxClicks == 2

(***************************************************************************)
(* Generic sequence helpers.                                               *)
(***************************************************************************)
RECURSIVE SumSeq(_)
SumSeq(s) == IF s = <<>> THEN 0 ELSE Head(s) + SumSeq(Tail(s))

Range(s) == {s[i] : i \in 1..Len(s)}

\* String.prototype.includes on character sequences
includes(s, sub) ==
    \E i \in 0..(Len(s) - Len(sub)) : SubSeq(s, i + 1, i + Len(sub)) = sub

\* String.prototype.split(sep) for a one-character separator
RECURSIVE split(_, _)
split(s, sep) ==
    IF \A i \in 1..Len(s) : s[i] # sep THEN <<s>>
    ELSE LET p == CHOOSE i \in 1..Len(s) : s[i] = sep /\ \A j \in 1..(i - 1) : s[j] # sep
         IN  <<SubSeq(s, 1, p - 1)>> \o split(SubSeq(s, p + 1, Len(s)), sep)

(***************************************************************************)
(* Numbers and their decimal texts.                                        *)
(***************************************************************************)
DigitChars == <<"0", "1", "2", "3", "4", "5", "6", "7", "8", "9">>

IsDigit(c) == \E i \in 1..10 : DigitChars[i] = c

DigitVal(c) == (CHOOSE i \in 1..10 : DigitChars[i] = c) - 1

\* stands for NaN: a value no text, day, month or year of the model has
NaN == -1

\* Number(text) for texts over digits and letters: "" is 0, a run of
\* digits is its decimal value, anything else is NaN
RECURSIVE Number(_)
Number(s) ==
    IF s = <<>> THEN 0
    ELSE IF \E i \in 1..Len(s) : ~IsDigit(s[i]) THEN NaN
    ELSE IF Len(s) = 1 THEN DigitVal(s[1])
    ELSE 10 * Number(SubSeq(s, 1, Len(s) - 1)) + DigitVal(s[Len(s)])

\* decimal text of an integer (template literal / string concatenation)
RECURSIVE ToStr(_)
ToStr(n) ==
    IF n < 0 THEN <<"-">> \o ToStr(0 - n)
    ELSE IF n < 10 THEN <<DigitChars[n + 1]>>
    ELSE ToStr(n \div 10) \o <<DigitChars[(n % 10) + 1]>>

(***************************************************************************)
(* The calendar primitive (JS Date in local time).                         *)
(***************************************************************************)
NullDate == [k |-> "null", t |-> 0]
InvalidDate == [k |-> "invalid", t |-> 0]
MkDate(t) == [k |-> "date", t |-> t]

\* truthiness of a Date-or-null value: every Date object is truthy
Truthy(d) == d.k # "null"
IsValid(d) == d.k = "date"

\* days since 1970-01-01 of the civil date (y, m, d), m in 1..12
DaysFromCivil(y, m, d) ==
    LET yy  == IF m <= 2 THEN y - 1 ELSE y
        era == yy \div 400
        yoe == yy - era * 400
        mp  == IF m > 2 THEN m - 3 ELSE m + 9
        doy == (153 * mp + 2) \div 5 + d - 1
        doe == yoe * 365 + yoe \div 4 - yoe \div 100 + doy
    IN  era * 146097 + doe - 719468


\* civil date [y, m, d] of a day number, m in 1..12: from the shifted month
\* mp (0 = March) and the day of the March-based year
CivilFromMonth(y, doy, mp) ==
    [y |-> IF mp < 10 THEN y ELSE y + 1,
     m |-> IF mp < 10 THEN mp + 3 ELSE mp - 9,
     d |-> doy - (153 * mp + 2) \div 5 + 1]

CivilFromYearDay(y, doy) == CivilFromMonth(y, doy, (5 * doy + 2) \div 153)

CivilFromEra(era, doe, yoe) ==
    CivilFromYearDay(yoe + era * 400, doe - (365 * yoe + yoe \div 4 - yoe \div 100))

CivilFromShifted(zz, era) ==
    CivilFromEra(era, zz - era * 146097,
                 ((zz - era * 146097) - (zz - era * 146097) \div 1460
                    + (zz - era * 146097) \div 36524
                    - (zz - era * 146097) \div 146096) \div 365)

CivilFromDays(z) == CivilFromShifted(z + 719468, (z + 719468) \div 146097)

\* new Date(year, monthIndex, day) for finite arguments, year >= 100:
\* month and day overflow roll over into the neighbouring months and years
NewDate(y, m0, d) ==
    MkDate(DaysFromCivil(y + (m0 \div 12), (m0 % 12) + 1, 1) + d - 1)

\* Date.prototype.getFullYear / getMonth / getDate; NaN for an invalid date
getFullYear(dt) == IF dt.k = "date" THEN CivilFromDays(dt.t).y ELSE NaN
getMonth(dt) == IF dt.k = "date" THEN CivilFromDays(dt.t).m - 1 ELSE NaN
getDay(dt) == IF dt.k = "date" THEN CivilFromDays(dt.t).d ELSE NaN

\* Date.prototype.setFullYear(y): keeps month and day of a valid date; an
\* invalid date is first reset to time 0 (1 January); a NaN year invalidates
SetYearOf(c, y) == NewDate(y, c.m - 1, c.d)

setFullYear(dt, y) ==
    IF y = NaN THEN InvalidDate
    ELSE IF dt.k = "date" THEN SetYearOf(CivilFromDays(dt.t), y)
    ELSE NewDate(y, 0, 1)

\* variant: <= read as <
DateLeStrict(a, b) == IsValid(a) /\ IsValid(b) /\ a.t < b.t

\* a < b, a <= b, a > b on Date values (valueOf comparison; NaN compares false)
DateLt(a, b) == IsValid(a) /\ IsValid(b) /\ a.t < b.t
DateLe(a, b) == IsValid(a) /\ IsValid(b) /\ a.t <= b.t
DateGt(a, b) == IsValid(a) /\ IsValid(b) /\ a.t > b.t

(***************************************************************************)
(* State.                                                                  *)
(***************************************************************************)
VARIABLES
    now,            \* Date.now(), as a day number
    board,          \* the board service: lists in display order, each with its open cards
    nextId,         \* next identifier the board service hands out
    boardId,        \* Trebis.boardId
    thisListId,     \* Trebis.thisListId
    lastListId,     \* Trebis.lastListId
    labels,         \* Trebis.labels
    storage,        \* localStorage: the cached board id and the cached color map
    pc,             \* position of the running operation
    run,            \* locals of the running updateCard call
    stat,           \* locals of the running getStatistic call
    reqs,           \* requests of the running (or last) operation, in order, with outcomes
    faults,         \* number of these requests that did not succeed
    ret,            \* what the finished operation returned
    inflight,       \* requests issued and not yet answered, in the order issued
    dateText,       \* the text handed to utils.getDate
    parsed,         \* what utils.getDate or the walk's date resolution gave for it
    earlier,        \* what the finished runs of the rollover handler came to
    calls,          \* handlers running interleaved: where each one waits, and its locals
    request,        \* TrelloApi._request: the fields the methods set before send
    sent            \* the requests fetch got in the last step: method, board addressed

vars == <<now, board, nextId, boardId, thisListId, lastListId, labels, storage,
          pc, run, stat, reqs, faults, ret, inflight, dateText, parsed, earlier,
          calls, request, sent>>

(***************************************************************************)
(* utils.ts                                                                *)
(***************************************************************************)
\* utils.isEqualDate: same day, month and year (NaN parts never equal)
SameCivil(c1, c2) == c1.d = c2.d /\ c1.m = c2.m /\ c1.y = c2.y

isEqualDate(date1, date2) ==
    /\ IsValid(date1) /\ IsValid(date2)
    /\ SameCivil(CivilFromDays(date1.t), CivilFromDays(date2.t))

\* variant: only the comma is replaced
ReplaceCommas(s) ==
    [i \in 1..Len(s) |-> IF s[i] = "," THEN "." ELSE s[i]]

\* date.replace(/,|\//g, '.')
ReplaceSeparators(s) ==
    [i \in 1..Len(s) |-> IF s[i] \in {",", "/"} THEN "." ELSE s[i]]

\* dateValues[i] = Number(dateValues[i])
Numbers(dateValues) == [i \in 1..Len(dateValues) |-> Number(dateValues[i])]

\* variant: the year 2000 counts as a two-digit year
DateOfValuesShort(full) ==
    IF Len(full) < 3 THEN InvalidDate
    ELSE NewDate(IF full[3] <= 2000 THEN full[3] + 2000 ELSE full[3], full[2] - 1, full[1])

\* the end of utils.getDate: month - 1, two-digit year, new Date(...); a
\* missing year component gives new Date(undefined, ...), an invalid date
DateOfValues(full) ==
    IF Len(full) < 3 THEN InvalidDate
    ELSE NewDate(IF full[3] < 2000 THEN full[3] + 2000 ELSE full[3], full[2] - 1, full[1])

\* the loop over dateValues and the default year
DateOfNumbers(nums) ==
    IF \E i \in 1..Len(nums) : nums[i] = NaN THEN NullDate
    ELSE IF Len(nums) < 3 THEN DateOfValues(Append(nums, getFullYear(MkDate(now))))
    ELSE DateOfValues(nums)

\* utils.getDate below the range branch
getDatePlain(s) ==
    DateOfNumbers(Numbers(split(s, IF includes(s, <<".">>) THEN "." ELSE "-")))

\* if (date) res = date
KeepParsed(d, res) == IF Truthy(d) THEN d ELSE res

\* the forEach of the range branch: the last fragment that gives a Date object
RECURSIVE LastParsed(_, _)
LastParsed(parseDates, res) ==
    IF parseDates = <<>> THEN res
    ELSE LastParsed(Tail(parseDates), KeepParsed(getDatePlain(Head(parseDates)), res))

\* utils.getDate after the separators are replaced
getDateOf(s) ==
    IF includes(s, <<".">>) /\ includes(s, <<"-">>)
    THEN LastParsed(split(s, "-"), NullDate)
    ELSE getDatePlain(s)

\* utils.getDate
getDate(text) == getDateOf(ReplaceSeparators(text))

Pad2(n) == IF n < 10 THEN <<"0">> \o ToStr(n) ELSE ToStr(n)

FormatDate(c, isFullYear) ==
    Pad2(c.d) \o <<".">> \o Pad2(c.m) \o <<".">>
        \o ToStr(c.y - (IF isFullYear THEN 0 ELSE 2000))

\* utils.date(time, isFullYear): DD.MM.YY or DD.MM.YYYY
date(time, isFullYear) == FormatDate(CivilFromDays(time), isFullYear)

\* utils.getDayInSec(day), in the day-number unit of the model
getDayInSec(day) == day

\* characters the class [^( |\n)] of the link pattern excludes
LinkStop == {"(", " ", "|", "\n", ")"}

\* utils.isLink: /((http|s:\/\/)[^( |\n)]+)/ matches somewhere in the text
isLink(text) ==
    /\ text # <<>>
    /\ \E i \in 1..Len(text) :
          /\ i + 4 <= Len(text)
          /\ SubSeq(text, i, i + 3) \in {<<"h", "t", "t", "p">>, <<"s", ":", "/", "/">>}
          /\ text[i + 4] \notin LinkStop

(***************************************************************************)
(* Values of the workflow object and of the board service.                 *)
(***************************************************************************)
\* JS null for the board id
Null == "null"
BoardIdValue == "b1"
\* a second board of the organisation
OtherBoard == "b2"

\* the handlers that can run interleaved: the rollover button pressed twice,
\* the statistics over the organisation, the removal of old lists
Rollovers == {1, 2}
Statistic == 3
Remover == 4
Callers == Rollovers \cup {Statistic, Remover}

\* ITrebisListId {id, index}; nul marks the JS null, NoIndex the null index
NoIndex == -1
NullListId == [nul |-> TRUE, id |-> 0, index |-> NoIndex]
ListId(id, index) == [nul |-> FALSE, id |-> id, index |-> index]

Colors == {"red", "yellow", "green", "blue", "purple"}

\* the label catalogue of the board (ITrelloLabel[]); purple stands for the
\* colors the workflow does not interpret
BoardLabels == <<[id |-> 101, color |-> "red"], [id |-> 102, color |-> "yellow"],
                 [id |-> 103, color |-> "green"], [id |-> 104, color |-> "blue"],
                 [id |-> 105, color |-> "purple"]>>

\* ITrebisLabel: color -> id, 0 for a color without entry (undefined)
NullLabels == [nul |-> TRUE, ids |-> [c \in Colors |-> 0]]

\* labels.forEach(label => this.labels[label.color] = label.id): the last
\* label of a color wins
RECURSIVE LabelMap(_, _)
LabelMap(ls, acc) ==
    IF ls = <<>> THEN acc
    ELSE LabelMap(Tail(ls), [acc EXCEPT ![Head(ls).color] = Head(ls).id])

\* outcomes of one request: a successful response, a successful response
\* whose data carries no id, a non-2xx response ({status: false, err}), and
\* a rejected fetch (the exception leaves Request.send)
Outcomes == {"ok", "noid", "fail", "throw"}

\* the outcomes of a request that answers with the object it created, and
\* of any other request
Plain == {"ok", "fail", "throw"}

\* outcome sequences of length n over the set outs with at most k outcomes
\* other than "ok"
RECURSIVE OutSeqs(_, _, _)
OutSeqs(n, k, outs) ==
    IF n = 0 THEN {<<>>}
    ELSE {<<"ok">> \o p : p \in OutSeqs(n - 1, k, outs)}
         \cup (IF k > 0
               THEN {<<o>> \o p : o \in outs \ {"ok"}, p \in OutSeqs(n - 1, k - 1, outs)}
               ELSE {})

(***************************************************************************)
(* The operations are computed on a record st of the object's fields, the  *)
(* board, the request log and the outcomes the next requests will have:    *)
(*   st.outs   outcomes of the requests still to be issued                 *)
(*   st.threw  an exception is propagating                                 *)
(*   st.void   an outcome was drawn that the request cannot have           *)
(***************************************************************************)
\* the record at the start of an operation (its request log is empty)
Cur(outs) ==
    [board |-> board, nextId |-> nextId, boardId |-> boardId,
     thisListId |-> thisListId, lastListId |-> lastListId, labels |-> labels,
     storage |-> storage, reqs |-> <<>>, faults |-> 0,
     outs |-> outs, threw |-> FALSE, void |-> FALSE, out |-> "ok"]

Throw(st) == [st EXCEPT !.threw = TRUE]

\* the response o to a request: it is logged with its outcome; a rejected
\* fetch propagates (Request.ts has no try/catch around fetch)
Respond(st, by, api, target, value, allowed, o, newId) ==
    [st EXCEPT !.outs = IF st.outs = <<>> THEN <<>> ELSE Tail(st.outs),
               !.out = o,
               !.void = st.void \/ o \notin allowed,
               !.threw = (o = "throw"),
               !.faults = st.faults + (IF o = "ok" THEN 0 ELSE 1),
               !.nextId = st.nextId + (IF newId # 0 THEN 1 ELSE 0),
               !.reqs = Append(st.reqs, [by |-> by, api |-> api, target |-> target,
                                         value |-> value, out |-> o, newId |-> newId])]

NextOut(st) == IF st.outs = <<>> THEN "ok" ELSE Head(st.outs)

\* Request.send as the callers see it
Send(st, by, api, target, value, allowed) ==
    Respond(st, by, api, target, value, allowed, NextOut(st),
            IF api \in {"addList", "addCard"} /\ NextOut(st) = "ok" THEN st.nextId ELSE 0)

\* the identifier the last request created, 0 if none
LastNewId(st) == st.reqs[Len(st.reqs)].newId

\* the board after a card is added to the list idList
AddCardTo(b, idList, card) ==
    [i \in 1..Len(b) |-> IF b[i].id = idList
                         THEN [b[i] EXCEPT !.cards = Append(b[i].cards, card)]
                         ELSE b[i]]

ColorOf(labelId) ==
    IF \E i \in 1..Len(BoardLabels) : BoardLabels[i].id = labelId
    THEN (CHOOSE l \in Range(BoardLabels) : l.id = labelId).color
    ELSE "none"

\* the card with the label of the catalogue, once
WithLabel(c, labelId) ==
    IF ColorOf(labelId) # "none" /\ \A k \in 1..Len(c.labels) : c.labels[k].id # labelId
    THEN [c EXCEPT !.labels = Append(c.labels, [id |-> labelId, color |-> ColorOf(labelId)])]
    ELSE c

\* the board after the card cardId got the label
AddLabelTo(b, cardId, labelId) ==
    [i \in 1..Len(b) |->
        [b[i] EXCEPT !.cards = [j \in 1..Len(b[i].cards) |->
            IF b[i].cards[j].id = cardId THEN WithLabel(b[i].cards[j], labelId)
            ELSE b[i].cards[j]]]]

\* the board after the card cardId got the description
SetDesc(b, cardId, desc) ==
    [i \in 1..Len(b) |->
        [b[i] EXCEPT !.cards = [j \in 1..Len(b[i].cards) |->
            IF b[i].cards[j].id = cardId THEN [b[i].cards[j] EXCEPT !.desc = desc]
            ELSE b[i].cards[j]]]]

(***************************************************************************)
(* class Trebis (TrelloUI.ts:233-677)                                      *)
(***************************************************************************)
\* variant: a board id is taken to be held always
_getBoardIdAlways(st) == TRUE

\* Trebis._getBoardId: is a board id held
_getBoardId(st) == st.boardId # Null

\* boards of the organisation (TrelloUI.ts:328-336)
getBoardIdOrg(s3, where) ==
    IF ~s3.threw /\ s3.out = "ok" /\ where = "org"
    THEN [s3 EXCEPT !.boardId = BoardIdValue, !.storage.boardId = BoardIdValue]
    ELSE s3

\* boards of the user (TrelloUI.ts:315-327)
getBoardIdOwn(s1, where) ==
    IF s1.threw THEN s1
    ELSE IF s1.out = "fail" THEN Throw([s1 EXCEPT !.boardId = Null])  \* boards.forEach on undefined
    ELSE IF where = "own"
         THEN [s1 EXCEPT !.boardId = BoardIdValue, !.storage.boardId = BoardIdValue]
    ELSE getBoardIdOrg(Send([s1 EXCEPT !.boardId = Null],
                            "getBoardId", "getOrganizations", 0, 0, Plain), where)

\* Trebis.getBoardId: the cached id, else the id found among the user's
\* boards ("own"), else among the organisation's ("org"), else null
getBoardId(st, where) ==
    IF st.storage.boardId # Null THEN [st EXCEPT !.boardId = st.storage.boardId]
    ELSE getBoardIdOwn(Send(st, "getBoardId", "getBoards", 0, 0, Plain), where)

\* the color map of the whole catalogue
BoardLabelMap == [nul |-> FALSE, ids |-> LabelMap(BoardLabels, NullLabels.ids)]

\* TrelloUI.ts:367-372
initLabelsGot(s1) ==
    IF s1.threw THEN s1
    ELSE IF s1.out = "fail" THEN Throw(s1)               \* labels.forEach on undefined
    ELSE [s1 EXCEPT !.labels = BoardLabelMap, !.storage.labels = BoardLabelMap]

\* Trebis.initLabels: the cached color map of the board, else the board's labels
initLabels(st, by) ==
    IF st.boardId # Null /\ ~st.storage.labels.nul
    THEN [st EXCEPT !.labels = st.storage.labels]
    ELSE IF ~_getBoardId(st) THEN st
    ELSE initLabelsGot(Send(st, by, "getLabels", 0, 0, Plain))

\* TrelloUI.ts:380-383: the list the service created, on top of the board
createListAdded(s1, name) ==
    IF s1.out = "ok"
    THEN [s1 EXCEPT !.board = IF s1.boardId = BoardIdValue
                              THEN <<[id |-> LastNewId(s1), name |-> name, cards |-> <<>>]>>
                                   \o s1.board
                              ELSE s1.board,
                    !.thisListId = ListId(LastNewId(s1), NoIndex)]
    ELSE s1

\* Trebis.createList: a new list named name or, without name, by
\* TrelloApi.addList after the current date
createList(st, by, name) ==
    IF ~_getBoardId(st) THEN [st EXCEPT !.thisListId = NullListId]
    ELSE createListAdded(Send([st EXCEPT !.thisListId = NullListId], by, "addList", 0, 0, Plain),
                         IF name = <<>> THEN date(now, FALSE) ELSE name)

\* what TrelloApi.getLists hands back: send.data
getListsGot(s1) ==
    [st |-> s1,
     lists |-> IF s1.out = "ok" /\ s1.boardId # Null     \* the service knows no board "null"
               THEN [def |-> TRUE, v |-> s1.board]
               ELSE [def |-> FALSE, v |-> <<>>]]

\* Trebis.getLists: the board's lists with their open cards, or undefined
getLists(st, by) == getListsGot(Send(st, by, "getLists", 0, 0, Plain))

\* variant: only lists of the same calendar day match, the names are not compared
sameListDated(listName, parseListName, name, parseName) ==
    Truthy(parseListName) /\ Truthy(parseName) /\ isEqualDate(parseListName, parseName)

\* the condition of TrelloUI.ts:398-399
sameList(listName, parseListName, name, parseName) ==
    \/ name = listName
    \/ Truthy(parseListName) /\ Truthy(parseName) /\ isEqualDate(parseListName, parseName)

\* for (const list of lists), from position index
RECURSIVE getListIdFrom(_, _, _, _)
getListIdFrom(lists, name, parseName, index) ==
    IF index >= Len(lists) THEN NullListId
    ELSE IF sameList(lists[index + 1].name, getDate(lists[index + 1].name), name, parseName)
         THEN ListId(lists[index + 1].id, index)
    ELSE getListIdFrom(lists, name, parseName, index + 1)

\* Trebis.getListId: the first list with this name or the same calendar day
getListId(lists, name) == getListIdFrom(lists, name, getDate(name), 0)

\* number of days the search for the previous list goes back (TrelloUI.ts:429)
MaxProbe == 25

RECURSIVE FindLast(_, _)

\* variant: the search stops one day early
FoundOrEarly(found, lists, day) ==
    IF day + 1 >= MaxProbe \/ ~found.nul THEN [id |-> found, probes |-> day]
    ELSE FindLast(lists, day + 1)

\* variant: a list found does not end the search
FoundOrOn(found, lists, day) ==
    IF day + 1 > MaxProbe THEN [id |-> found, probes |-> day]
    ELSE FindLast(lists, day + 1)

\* day++; if (day > 25) break; while (!this.lastListId): the list found (or
\* null) and the number of days probed
FoundOr(found, lists, day) ==
    IF day + 1 > MaxProbe \/ ~found.nul THEN [id |-> found, probes |-> day]
    ELSE FindLast(lists, day + 1)

\* the do-while of Trebis.initListId: probe day, day + 1, ... up to MaxProbe
FindLast(lists, day) ==
    FoundOr(getListId(lists, date(now - getDayInSec(day), FALSE)), lists, day)

Undefined == [def |-> FALSE, v |-> <<>>]
Defined(v) == [def |-> TRUE, v |-> v]

\* TrelloUI.ts:419-421: a list found for today makes createList run
initThisFound(st, t) ==
    IF ~t.nul THEN createList([st EXCEPT !.thisListId = t], "updateCard", <<>>)
    ELSE [st EXCEPT !.thisListId = t]

\* TrelloUI.ts:417-422
initThisList(st, lists) ==
    IF ~st.thisListId.nul THEN st
    ELSE IF ~lists.def THEN Throw(st)                    \* for..of undefined
    ELSE initThisFound(st, getListId(lists.v, date(now, FALSE)))

\* TrelloUI.ts:424-432
initLastList(s1, lists) ==
    IF s1.threw THEN s1
    ELSE IF ~lists.def THEN Throw(s1)                    \* for..of undefined
    ELSE [s1 EXCEPT !.lastListId = FindLast(lists.v, 1).id]

\* Trebis.initListId
initListId(st, lists) == initLastList(initThisList(st, lists), lists)

\* what TrelloApi.getCards hands back: send.data
initCardsGot(s1, listId) ==
    [st |-> s1,
     cards |-> IF s1.out = "ok" /\ \E i \in 1..Len(s1.board) : s1.board[i].id = listId.id
               THEN Defined(s1.board[CHOOSE i \in 1..Len(s1.board) :
                                         s1.board[i].id = listId.id].cards)
               ELSE IF s1.out = "ok" THEN Defined(<<>>) ELSE Undefined]

\* initCards of Trebis.updateCard
initCards(st, lists, listId) ==
    IF listId.nul THEN [st |-> Throw(st), cards |-> Undefined]   \* listId.index of null
    ELSE IF listId.index = NoIndex THEN [st |-> st, cards |-> Defined(<<>>)]
    ELSE IF listId.index + 1 <= Len(lists.v)
         THEN [st |-> st, cards |-> Defined(lists.v[listId.index + 1].cards)]
    ELSE initCardsGot(Send(st, "updateCard", "getCards", listId.id, 0, Plain), listId)

\* the text the link of a task is written with, one element for the caption
LinkOpen == <<"[", "Ssylka na zadachu", "]", "(">>
LinkClose == <<")", "\n">>

\* names.forEach of Trebis.updateCard: the description with a link line
\* prepended for every link of the name it does not contain yet
RECURSIVE LinkDesc(_, _)
LinkDesc(names, desc) ==
    IF names = <<>> THEN desc
    ELSE LinkDesc(Tail(names),
                  IF isLink(Head(names)) /\ ~includes(desc, Head(names))
                  THEN LinkOpen \o Head(names) \o LinkClose \o desc
                  ELSE desc)

\* variant: only the first label decides whether the card is resolved
ScanHead(ls, acc) ==
    IF ls # <<>> /\ Head(ls).color \in {"green", "blue"}
    THEN [addedCard |-> FALSE, addedLabels |-> <<>>]
    ELSE [addedCard |-> TRUE,
          addedLabels |-> acc \o [i \in 1..Len(SelectSeq(ls, LAMBDA l : l.color # "red")) |->
                                     SelectSeq(ls, LAMBDA l : l.color # "red")[i].id]]

\* variant: red labels are carried over like the others
ScanKeepRed(ls, acc) ==
    IF \E i \in 1..Len(ls) : ls[i].color \in {"green", "blue"}
    THEN [addedCard |-> FALSE, addedLabels |-> <<>>]
    ELSE [addedCard |-> TRUE, addedLabels |-> acc \o [i \in 1..Len(ls) |-> ls[i].id]]

\* the label loop of Trebis.updateCard: addedCard and addedLabels
RECURSIVE ScanLabels(_, _)
ScanLabels(ls, acc) ==
    IF ls = <<>> THEN [addedCard |-> TRUE, addedLabels |-> acc]
    ELSE IF Head(ls).color \in {"green", "blue"}
         THEN [addedCard |-> FALSE, addedLabels |-> <<>>]
    ELSE ScanLabels(Tail(ls), IF Head(ls).color # "red" THEN Append(acc, Head(ls).id) ELSE acc)

\* variant: the names of today's cards are not looked at
isAddedAlways(thisCards, name) == TRUE

\* for (const thisCard of thisCards): no card of today's list has this name
isAdded(thisCards, name) ==
    \A i \in 1..Len(thisCards) : thisCards[i].name # name

\* the board after TrelloApi.addLabels answered
labelAdded(s1, cardId, labelId) ==
    IF s1.out = "ok" THEN [s1 EXCEPT !.board = AddLabelTo(s1.board, cardId, labelId)]
    ELSE s1

\* TrelloApi.addLabels
addLabels(st, cardId, labelId) ==
    labelAdded(Send(st, "updateCard", "addLabels", cardId, labelId, Plain), cardId, labelId)

\* for (const label of labels) await this.trello.addLabels(cardId, label)
RECURSIVE AddLabelsAll(_, _, _)
AddLabelsAll(st, cardId, ls) ==
    IF st.threw \/ ls = <<>> THEN st
    ELSE AddLabelsAll(addLabels(st, cardId, Head(ls)), cardId, Tail(ls))

\* TrelloUI.ts:437-444: the copy exists on the board without labels
\* (keepFromSource names no labels) and gets the labels one by one
cardCopied(s1, data, lbls) ==
    IF s1.threw THEN s1
    ELSE IF s1.out = "fail" THEN Throw(s1)               \* req.data.id of undefined
    ELSE IF s1.out = "noid" THEN s1                       \* logged, nothing else
    ELSE AddLabelsAll([s1 EXCEPT !.board =
                          AddCardTo(s1.board, data.idList,
                                    [id |-> LastNewId(s1), name |-> data.name,
                                     desc |-> data.desc, labels |-> <<>>])],
                      LastNewId(s1), lbls)

\* Trebis.createCard with TrelloApi.copyCard / addCard
createCard(st, data, lbls, copyCardId) ==
    cardCopied(Send(st, "updateCard", "addCard", copyCardId, data.idList, Outcomes), data, lbls)

\* locals of Trebis.updateCard: the list collection, the cards of today's
\* and of the previous list, the position in lastCards and cardCount; by is
\* the caller
NoRun == [lists |-> <<>>, thisCards |-> Undefined, lastCards |-> Undefined,
          i |-> 1, cardCount |-> 0, by |-> "none"]

\* TrelloUI.ts:464-466: the cards of the previous list; k tells whether the
\* call entered the loop or threw
updateCardLast(thisCards, l, lists) ==
    IF l.st.threw \/ ~l.cards.def                        \* for..of undefined
    THEN [st |-> Throw(l.st), k |-> "threw", run |-> NoRun]
    ELSE [st |-> l.st, k |-> "loop",
          run |-> [NoRun EXCEPT !.lists = lists.v, !.thisCards = thisCards,
                                !.lastCards = l.cards]]

\* TrelloUI.ts:463: the cards of today's list
updateCardThis(t, lists) ==
    IF t.st.threw THEN [st |-> t.st, k |-> "threw", run |-> NoRun]
    ELSE updateCardLast(t.cards, initCards(t.st, lists, t.st.lastListId), lists)

\* TrelloUI.ts:451-453, 521-525: null without a previous list
updateCardInit(s2, lists) ==
    IF s2.threw THEN [st |-> s2, k |-> "threw", run |-> NoRun]
    ELSE IF s2.lastListId.nul
         THEN [st |-> s2, k |-> "null", run |-> [NoRun EXCEPT !.lists = lists.v]]
    ELSE updateCardThis(initCards(s2, lists, s2.thisListId), lists)

\* TrelloUI.ts:449-450 with the lists fetched
updateCardGot(g) ==
    IF g.st.threw THEN [st |-> g.st, k |-> "threw", run |-> NoRun]
    ELSE updateCardInit(initListId(g.st, g.lists), g.lists)

\* Trebis.updateCard up to the for loop (TrelloUI.ts:447-465)
updateCardEnter(st, trelloLists) ==
    IF ~_getBoardId(st) THEN [st |-> st, k |-> "null", run |-> NoRun]
    ELSE IF trelloLists.def THEN updateCardGot([st |-> st, lists |-> trelloLists])
    ELSE updateCardGot(getLists(st, "updateCard"))

\* TrelloUI.ts:468-480: data.desc after names.forEach
newDesc(card) ==
    IF card.name # <<>> THEN LinkDesc(split(card.name, " "), card.desc) ELSE card.desc

\* TrelloUI.ts:483-485: the card the service answers with replaces lastCard
descUpdated(u, card, desc) ==
    IF u.out = "ok"
    THEN [st |-> [u EXCEPT !.board = SetDesc(u.board, card.id, desc)],
          lastCard |-> [card EXCEPT !.desc = desc]]
    ELSE [st |-> u, lastCard |-> card]

\* variant: the description with the link goes into the copy only, no update
\* call is made
updateDescLocal(st, card, desc) == [st |-> st, lastCard |-> [card EXCEPT !.desc = desc]]

\* TrelloUI.ts:481-486
updateDesc(st, card, desc) ==
    IF desc # card.desc
    THEN descUpdated(Send(st, "updateCard", "updateCard", card.id, desc, Plain), card, desc)
    ELSE [st |-> st, lastCard |-> card]

\* the end of an iteration: the next card, cardCount
iterated(st, r, cardCount) ==
    [st |-> st, run |-> [r EXCEPT !.i = r.i + 1, !.cardCount = cardCount]]

\* TrelloUI.ts:515-516: the source card tagged red, cardCount++
tagged(a, r) == iterated(a, r, IF a.threw THEN r.cardCount ELSE r.cardCount + 1)

\* TrelloUI.ts:514-515
created(s2, r, lastCard) ==
    IF s2.threw THEN iterated(s2, r, r.cardCount)
    ELSE tagged(addLabels(s2, lastCard.id, s2.labels.ids["red"]), r)

\* TrelloUI.ts:499-518
migrateScanned(st, r, lastCard, scan) ==
    IF ~scan.addedCard THEN iterated(st, r, r.cardCount)
    ELSE IF ~r.thisCards.def THEN iterated(Throw(st), r, r.cardCount)   \* for..of undefined
    ELSE IF ~isAdded(r.thisCards.v, lastCard.name) THEN iterated(st, r, r.cardCount)
    ELSE IF st.thisListId.nul \/ st.labels.nul
         THEN iterated(Throw(st), r, r.cardCount)         \* .id / .yellow of null
    ELSE created(createCard(st, [idList |-> st.thisListId.id, name |-> lastCard.name,
                                 desc |-> lastCard.desc],
                            Append(scan.addedLabels, st.labels.ids["yellow"]), lastCard.id),
                 r, lastCard)

\* TrelloUI.ts:487-498
migrateLast(p, r) ==
    IF p.st.threw THEN iterated(p.st, r, r.cardCount)
    ELSE migrateScanned(p.st, r, p.lastCard, ScanLabels(p.lastCard.labels, <<>>))

\* TrelloUI.ts:466-486
migrateFrom(st, r, card) == migrateLast(updateDesc(st, card, newDesc(card)), r)

\* one iteration of the for loop of Trebis.updateCard (TrelloUI.ts:466-519)
migrateCard(st, r) == migrateFrom(st, r, r.lastCards.v[r.i])

(***************************************************************************)
(* Trebis.getStatistic (TrelloUI.ts:548-671)                               *)
(***************************************************************************)
\* half a year: the least number of whole days whose length in milliseconds
\* reaches 15767993085 (TrelloUI.ts:558)
HalfYearDays == 183

\* variant: the year of the previous date is taken whatever the distance
getCorrectDateAlways(oldDate, thisDate) ==
    IF oldDate = NullDate /\ thisDate = NullDate THEN NullDate
    ELSE IF IsValid(oldDate) /\ IsValid(thisDate)
         THEN setFullYear(thisDate, getFullYear(oldDate))
         ELSE thisDate

\* Trebis.getCorrectDate
getCorrectDate(oldDate, thisDate) ==
    IF oldDate = NullDate /\ thisDate = NullDate THEN NullDate
    ELSE IF /\ IsValid(oldDate) /\ IsValid(thisDate)
            /\ (IF oldDate.t - thisDate.t < 0 THEN thisDate.t - oldDate.t
                ELSE oldDate.t - thisDate.t) >= HalfYearDays
         THEN setFullYear(thisDate, getFullYear(oldDate))
         ELSE thisDate

StatColors == {"green", "blue", "red", "yellow"}
ZeroStat == [red |-> 0, yellow |-> 0, blue |-> 0, green |-> 0]

\* objects used as maps: a missing key reads as default
EmptyMap == <<>>
Get(f, k, default) == IF k \in DOMAIN f THEN f[k] ELSE default
Put(f, k, v) == [x \in (DOMAIN f) \cup {k} |-> IF x = k THEN v ELSE f[x]]

\* variant: the bucket of the day is written anew with every label
saveAtFresh(data, y, m, d, color) ==
    Put(data, y,
        Put(Get(data, y, EmptyMap), m,
            Put(Get(Get(data, y, EmptyMap), m, EmptyMap), d, [ZeroStat EXCEPT ![color] = 1])))

\* TrelloUI.ts:626-647: the counter of the color in the bucket of (y, m, d)
saveAt(data, y, m, d, color) ==
    LET listDateYear  == Get(data, y, EmptyMap)
        listDateMonth == Get(listDateYear, m, EmptyMap)
        bucket == Get(listDateMonth, d, ZeroStat)
    IN  Put(data, y,
            Put(listDateYear, m,
                Put(listDateMonth, d, [bucket EXCEPT ![color] = @ + 1])))

\* TrelloUI.ts:625: only with a date
saveOn(data, tmpListDate, color) ==
    IF ~Truthy(tmpListDate) THEN data
    ELSE saveAt(data, getFullYear(tmpListDate), getMonth(tmpListDate),
                getDay(tmpListDate), color)

\* TrelloUI.ts:620-649: the label counted in the bucket of the list's date,
\* or of the previous list's date when the list has none
saveLabel(data, listDate, oldListDate, color) ==
    saveOn(data, IF ~Truthy(listDate) THEN oldListDate ELSE listDate, color)

\* TrelloUI.ts:614-651: one label
tallyLabel(acc, color, listDate, oldListDate, save) ==
    IF color \in StatColors
    THEN [res  |-> [acc.res EXCEPT ![color] = @ + 1],
          data |-> IF save THEN saveLabel(acc.data, listDate, oldListDate, color)
                   ELSE acc.data]
    ELSE acc

\* for (const label of card.labels)
RECURSIVE tallyLabels(_, _, _, _, _)
tallyLabels(acc, ls, listDate, oldListDate, save) ==
    IF ls = <<>> THEN acc
    ELSE tallyLabels(tallyLabel(acc, Head(ls).color, listDate, oldListDate, save),
                     Tail(ls), listDate, oldListDate, save)

\* for (const card of cards)
RECURSIVE tallyCards(_, _, _, _, _)
tallyCards(acc, cards, listDate, oldListDate, save) ==
    IF cards = <<>> THEN acc
    ELSE tallyCards(tallyLabels(acc, Head(cards).labels, listDate, oldListDate, save),
                    Tail(cards), listDate, oldListDate, save)

\* variant: every name counts as written with a year
namePartsFull(name) == 3

\* number of components of a list name as TrelloUI.ts:599 counts them
nameParts(name) == Len(split(name, IF includes(name, <<".">>) THEN "." ELSE "-"))

\* variant: the year of the previous list instead of the year before it
yearBeforeSame(name, oldListDate, listDate) ==
    IF Truthy(oldListDate) /\ DateLt(oldListDate, listDate) /\ nameParts(name) < 3
    THEN setFullYear(listDate, getFullYear(oldListDate))
    ELSE listDate

\* variant: the year is moved when the previous list's date is the later one
yearBeforeAfter(name, oldListDate, listDate) ==
    IF Truthy(oldListDate) /\ DateGt(oldListDate, listDate) /\ nameParts(name) < 3
    THEN setFullYear(listDate, getFullYear(oldListDate) - 1)
    ELSE listDate

\* TrelloUI.ts:596-602: a date after the previous list's, written without
\* year, is moved to the year before the previous list's
yearBefore(name, oldListDate, listDate) ==
    IF Truthy(oldListDate) /\ DateLt(oldListDate, listDate) /\ nameParts(name) < 3
    THEN setFullYear(listDate, getFullYear(oldListDate) - 1)
    ELSE listDate

\* TrelloUI.ts:593-595
corrected(oldListDate, listDate) ==
    IF Truthy(oldListDate) /\ Truthy(listDate) THEN getCorrectDate(oldListDate, listDate)
    ELSE listDate

\* the date the walk resolves for a list (TrelloUI.ts:592-602)
resolveDate(name, oldListDate) ==
    yearBefore(name, oldListDate, corrected(oldListDate, getDate(name)))

\* locals of Trebis.getStatistic
NoStat == [lists |-> <<>>, startValue |-> <<>>, endValue |-> <<>>, save |-> FALSE,
           res |-> ZeroStat, isStart |-> FALSE, oldListDate |-> NullDate,
           data |-> EmptyMap, i |-> 1, broke |-> FALSE]

\* TrelloUI.ts:656-659: the walk ends at the start of the window
statNext(q, acc, isStart, break, listDate) ==
    [q EXCEPT !.isStart = isStart, !.res = acc.res, !.data = acc.data,
              !.broke = break,
              !.oldListDate = IF break THEN q.oldListDate ELSE listDate,
              !.i = q.i + 1]

\* TrelloUI.ts:607-658
statTally(q, list, listDate, isStart, past, atStart) ==
    statNext(q,
             IF isStart /\ ~past
             THEN tallyCards([res |-> q.res, data |-> q.data], list.cards,
                             listDate, q.oldListDate, q.save)
             ELSE [res |-> q.res, data |-> q.data],
             isStart, past \/ atStart, listDate)

\* TrelloUI.ts:603-607, 656: inside the window, past its start, at its start
statDated(q, list, startDate, endDate, listDate) ==
    statTally(q, list, listDate,
              \/ q.isStart
              \/ list.name = q.endValue
              \/ Truthy(endDate) /\ Truthy(listDate) /\ DateLe(listDate, endDate),
              Truthy(startDate) /\ Truthy(listDate) /\ DateGt(startDate, listDate),
              \/ list.name = q.startValue
              \/ Truthy(startDate) /\ Truthy(listDate) /\ isEqualDate(startDate, listDate))

\* one iteration of the list walk of Trebis.getStatistic (TrelloUI.ts:591-660)
statList(q) ==
    statDated(q, q.lists[q.i], getDate(q.startValue), getDate(q.endValue),
              resolveDate(q.lists[q.i].name, q.oldListDate))

\* TrelloUI.ts:574-591
statLabels(s2, lists, startValue, endValue, save) ==
    IF s2.threw \/ ~lists.def                            \* for..of undefined
    THEN [st |-> Throw(s2), k |-> "threw", stat |-> NoStat]
    ELSE [st |-> s2, k |-> "walk",
          stat |-> [NoStat EXCEPT !.lists = lists.v, !.startValue = startValue,
                                  !.endValue = endValue, !.save = save]]

\* TrelloUI.ts:573-574
statLists(g, startValue, endValue, save) ==
    IF g.st.threw THEN [st |-> g.st, k |-> "threw", stat |-> NoStat]
    ELSE statLabels(initLabels(g.st, "getStatistic"), g.lists, startValue, endValue, save)

\* Trebis.getStatistic up to the list walk (TrelloUI.ts:568-589)
statEnter(st, startValue, endValue, save) ==
    IF ~_getBoardId(st) THEN [st |-> st, k |-> "null", stat |-> NoStat]
    ELSE statLists(getLists(st, "getStatistic"), startValue, endValue, save)

(***************************************************************************)
(* Application.runScriptHandler (Application.ts:118-146) up to the loop of *)
(* updateCard: k is "threw", "nolist" (error notification), or the k of    *)
(* updateCardEnter                                                         *)
(***************************************************************************)
\* Application.ts:136
handlerUpdate(s3, lists) ==
    IF s3.threw THEN [st |-> s3, k |-> "threw", run |-> NoRun]
    ELSE updateCardEnter(s3, lists)

\* Application.ts:133-142
handlerLabels(s2, lists) ==
    IF s2.threw THEN [st |-> s2, k |-> "threw", run |-> NoRun]
    ELSE IF s2.thisListId.nul \/ s2.thisListId.id = 0
         THEN [st |-> s2, k |-> "nolist", run |-> NoRun]
    ELSE handlerUpdate(initLabels(s2, "runScriptHandler"), lists)

\* Application.ts:127-131
handlerFound(g, found) ==
    handlerLabels(IF found.nul THEN createList(g.st, "runScriptHandler", <<>>)
                  ELSE [g.st EXCEPT !.thisListId = found],
                  g.lists)

\* Application.ts:125-126
handlerLists(g) ==
    IF g.st.threw THEN [st |-> g.st, k |-> "threw", run |-> NoRun]
    ELSE IF ~g.lists.def                                 \* for..of undefined in getListId
         THEN [st |-> Throw(g.st), k |-> "threw", run |-> NoRun]
    ELSE handlerFound(g, getListId(g.lists.v, date(now, FALSE)))

\* Application.ts:122-124
handlerBoard(s1) ==
    IF s1.threw THEN [st |-> s1, k |-> "threw", run |-> NoRun]
    ELSE handlerLists(getLists(s1, "runScriptHandler"))

runScriptHandler(st, where) == handlerBoard(getBoardId(st, where))

(***************************************************************************)
(* Trebis.removeOldLists (TrelloUI.ts:532-546)                             *)
(***************************************************************************)
\* let day = 30: the lists at the top that are kept
KeepLists == 30

\* TrelloApi.deleteList up to its await: the PUT {closed: true} is issued
deleteList(listId) == [api |-> "deleteList", target |-> listId]

\* lists.forEach: a list is passed over while day counts down to 0, after
\* that deleteList is called for every list, without await, and counted
RECURSIVE removeEach(_, _, _)
removeEach(lists, day, acc) ==
    IF lists = <<>> THEN acc
    ELSE IF day = 0
         THEN removeEach(Tail(lists), day,
                         [count |-> acc.count + 1,
                          issued |-> Append(acc.issued, deleteList(Head(lists).id))])
    ELSE removeEach(Tail(lists), day - 1, acc)

\* Trebis.removeOldLists: the count it returns and the requests it has
\* issued when it returns
removeOldLists(lists) == removeEach(lists, KeepLists, [count |-> 0, issued |-> <<>>])

\* the board after the list is closed
CloseList(b, listId) == SelectSeq(b, LAMBDA l : l.id # listId)

\* the sequence without its element at position i
Without(q, i) == SubSeq(q, 1, i - 1) \o SubSeq(q, i + 1, Len(q))

(***************************************************************************)
(* Boards and inputs.                                                      *)
(***************************************************************************)
\* 10 January 2024
Today == DaysFromCivil(2024, 1, 10)

Label(color) == CHOOSE l \in Range(BoardLabels) : l.color = color

LinkName == <<"T", " ", "h", "t", "t", "p", ":", "/", "/", "x">>

\* names and labels a card of the previous list may have
CardPool == {
    [name |-> <<"A">>, labels |-> <<Label("red")>>],
    [name |-> <<"B">>, labels |-> <<Label("purple"), Label("red")>>],
    [name |-> <<"B">>, labels |-> <<Label("purple"), Label("green")>>],
    [name |-> LinkName, labels |-> <<Label("blue"), Label("yellow")>>],
    [name |-> LinkName, labels |-> <<Label("yellow")>>] }

RECURSIVE SeqsUpTo(_, _)
SeqsUpTo(S, n) ==
    IF n = 0 THEN {<<>>}
    ELSE SeqsUpTo(S, n - 1)
         \cup {Append(q, x) : q \in {p \in SeqsUpTo(S, n - 1) : Len(p) = n - 1}, x \in S}

\* the cards of the previous list: identifiers 21, 22, ... in list order
LastCardsOf(q) ==
    [i \in 1..Len(q) |-> [id |-> 20 + i, name |-> q[i].name, desc |-> <<>>, labels |-> q[i].labels]]

Card(id, name, colors) ==
    [id |-> id, name |-> <<name>>, desc |-> <<>>,
     labels |-> [i \in 1..Len(colors) |-> Label(colors[i])]]

\* today's list: none, or one that holds a card named A
TodayLists == {
    <<>>,
    <<[id |-> 11, name |-> date(Today, FALSE), cards |-> <<Card(31, "A", <<"yellow">>)>>]>> }

OneCard == <<[name |-> <<"A">>, labels |-> <<>>]>>

\* the lists of earlier days: yesterday with any cards, or a list 25 days
\* or 26 days back, or a list 3 days back above one 25 days back, or none
LastLists ==
    {<<[id |-> 12, name |-> date(Today - 1, FALSE), cards |-> LastCardsOf(q)]>> :
        q \in SeqsUpTo(CardPool, MaxCards)}
    \cup {<<[id |-> 12, name |-> date(Today - d, FALSE), cards |-> LastCardsOf(OneCard)]>> :
        d \in {MaxProbe, MaxProbe + 1}}
    \cup {<<[id |-> 12, name |-> date(Today - 3, FALSE), cards |-> LastCardsOf(OneCard)],
             [id |-> 13, name |-> date(Today - MaxProbe, FALSE), cards |-> <<>>]>>}
    \cup {<<>>}

\* boards of the rollover: today's list (if any) on top of an earlier list
RolloverBoards == {t \o l : t \in TodayLists, l \in LastLists}

\* the lists of the statistics, newest first: dated with and without the
\* usual separator, named without a date, and dated more than half a year back
StatLists == <<
    [id |-> 41, name |-> <<"1", "0", ".", "0", "1", ".", "2", "4">>,
     cards |-> <<Card(61, "R", <<"red">>)>>],
    [id |-> 42, name |-> <<"0", "9", ".", "0", "1", ".", "2", "4">>,
     cards |-> <<Card(62, "Y", <<"yellow">>), Card(63, "G", <<"yellow", "green">>)>>],
    [id |-> 46, name |-> <<"b", "a", "d">>,
     cards |-> <<Card(66, "R", <<"red">>)>>],
    [id |-> 43, name |-> <<"0", "9", ",", "0", "1", ",", "2", "4">>,
     cards |-> <<Card(64, "P", <<"purple", "yellow">>)>>],
    [id |-> 47, name |-> <<"a", "b", "c">>,
     cards |-> <<Card(67, "G", <<"green">>)>>],
    [id |-> 45, name |-> <<"0", "1", ".", "0", "6", ".", "2", "3">>,
     cards |-> <<Card(65, "R", <<"red">>)>>] >>

\* the elements of s at the positions in idx, in order
RECURSIVE Pick(_, _, _)
Pick(s, idx, i) ==
    IF i > Len(s) THEN <<>>
    ELSE (IF i \in idx THEN <<s[i]>> ELSE <<>>) \o Pick(s, idx, i + 1)

\* boards of the statistics: up to MaxLists of these lists, in their order
StatBoards ==
    {Pick(StatLists, idx, 1) :
        idx \in {x \in SUBSET (1..Len(StatLists)) : Cardinality(x) <= MaxLists}}

\* a board with two lists more than removeOldLists keeps
OldBoards == {[i \in 1..(KeepLists + 2) |-> [id |-> 200 + i, name |-> <<"L">>, cards |-> <<>>]]}

\* the windows asked for: startValue, endValue
Windows == {
    <<<<"0", "8", ".", "0", "1", ".", "2", "4">>, <<"1", "0", ".", "0", "1", ".", "2", "4">>>>,
    <<<<"0", "9", ".", "0", "1", ".", "2", "4">>, <<"0", "9", ".", "0", "1", ".", "2", "4">>>>,
    <<<<"0", "1", ".", "0", "1", ".", "2", "3">>, <<"3", "1", ".", "1", "2", ".", "2", "3">>>> }

\* no handler is running
Idle == [at |-> "idle", asked |-> Null, own |-> Null, key |-> Null, lists |-> <<>>,
         k |-> 0, n |-> 0]
NoCalls == [p \in Callers |-> Idle]

\* class Request after construction: customRequest and whether a body is set
NoRequest == [customRequest |-> Null, post |-> FALSE]

InitTrebis ==
    /\ boardId = Null
    /\ thisListId = NullListId
    /\ lastListId = NullListId
    /\ labels = NullLabels
    /\ storage = [boardId |-> Null, labels |-> NullLabels, other |-> NullLabels]

NoRet == [op |-> "none", k |-> "none", n |-> 0, res |-> ZeroStat]

Init ==
    /\ now = Today
    /\ board \in RolloverBoards \cup StatBoards \cup OldBoards
    /\ nextId = 50
    /\ InitTrebis
    /\ pc = "idle"
    /\ run = NoRun
    /\ stat = NoStat
    /\ reqs = <<>>
    /\ faults = 0
    /\ ret = NoRet
    /\ inflight = <<>>
    /\ dateText = <<>>
    /\ parsed = NullDate
    /\ earlier = <<>>
    /\ calls = NoCalls
    /\ request = NoRequest
    /\ sent = <<>>

(***************************************************************************)
(* Actions.                                                                *)
(***************************************************************************)
\* the outcomes drawn were all used by requests that can have them
Used(st) == ~st.void /\ \A i \in 1..Len(st.outs) : st.outs[i] = "ok"

\* the fields of the object, its storage and the board
CommitFields(st) ==
    /\ board' = st.board
    /\ nextId' = st.nextId
    /\ boardId' = st.boardId
    /\ thisListId' = st.thisListId
    /\ lastListId' = st.lastListId
    /\ labels' = st.labels
    /\ storage' = st.storage

Commit(st) ==
    /\ CommitFields(st)
    /\ reqs' = st.reqs
    /\ faults' = st.faults

\* the record in the middle of an operation: its log goes on
Cont(outs) == [Cur(outs) EXCEPT !.reqs = reqs, !.faults = faults]

Places == {"own", "org", "none"}

\* a caller resolves the board (Application._getBoardId) before an operation
GetBoardId ==
    /\ pc = "idle"
    /\ \E where \in Places, outs \in OutSeqs(2, MaxFaults, Plain) :
        /\ Used(getBoardId(Cur(outs), where))
        /\ CommitFields(getBoardId(Cur(outs), where))
    /\ UNCHANGED <<calls, request, sent, earlier, inflight, dateText, parsed, now, pc, run, stat, reqs, faults, ret>>

\* a caller initialises the color map before an operation
InitLabels ==
    /\ pc = "idle"
    /\ \E outs \in OutSeqs(1, MaxFaults, Plain) :
        /\ Used(initLabels(Cur(outs), "initLabels"))
        /\ CommitFields(initLabels(Cur(outs), "initLabels"))
    /\ UNCHANGED <<calls, request, sent, earlier, inflight, dateText, parsed, now, pc, run, stat, reqs, faults, ret>>

\* the start of an updateCard run, from the handler (op) or called directly
Enter(e, op) ==
    /\ Used(e.st)
    /\ Commit(e.st)
    /\ run' = [e.run EXCEPT !.by = op]
    /\ pc' = IF e.k = "loop" THEN "loop" ELSE "done"
    /\ ret' = IF e.k = "loop" THEN NoRet
              ELSE [NoRet EXCEPT !.op = IF e.k = "null" THEN "updateCard" ELSE op, !.k = e.k]
    /\ UNCHANGED <<calls, request, sent, inflight, dateText, parsed, now, stat>>

\* what a finished run of the handler came to: the kind of its result, the
\* count, and whether every request it sent succeeded
Finished ==
    [k |-> ret.k, n |-> ret.n,
     clean |-> \A j \in 1..Len(reqs) : reqs[j].out = "ok"]

\* with the board id in localStorage getBoardId sends nothing and does not
\* look where the board is: the handler sends three requests at most
HandlerPlaces == IF storage.boardId = Null THEN Places ELSE {"own"}
HandlerRequests == IF storage.boardId = Null THEN 5 ELSE 3

\* the handler of the rollover button; the button can be pressed a second
\* time once the run before has come to its end and hidden the indicator
\* (after an exception the indicator stays over the page for a minute, that
\* case is left out)
RunScriptHandler ==
    /\ \/ pc = "idle" /\ earlier' = earlier
       \/ /\ pc = "done" /\ run.by = "runScriptHandler" /\ ret.k # "threw"
          /\ earlier = <<>>
          /\ earlier' = Append(earlier, Finished)
    /\ \E where \in HandlerPlaces, outs \in OutSeqs(HandlerRequests, MaxFaults - faults, Plain) :
        Enter(runScriptHandler([Cur(outs) EXCEPT !.faults = faults], where),
              "runScriptHandler")

UpdateCard ==
    /\ pc = "idle"
    /\ earlier' = earlier
    /\ \E outs \in OutSeqs(2, MaxFaults, Plain) :
        Enter(updateCardEnter(Cur(outs), Undefined), "updateCard")

\* the iteration over one card of the previous list
Migrated(m) ==
    /\ Used(m.st)
    /\ Commit(m.st)
    /\ run' = m.run
    /\ pc' = IF m.st.threw THEN "done" ELSE "loop"
    /\ ret' = IF m.st.threw THEN [NoRet EXCEPT !.op = "updateCard", !.k = "threw"] ELSE NoRet
    /\ UNCHANGED <<calls, request, sent, earlier, inflight, dateText, parsed, now, stat>>

MigrateCard ==
    /\ pc = "loop"
    /\ run.i <= Len(run.lastCards.v)
    /\ \E outs \in OutSeqs(Len(run.lastCards.v[run.i].labels) + 4, MaxFaults - faults, Outcomes) :
        Migrated(migrateCard(Cont(outs), run))

\* return cardCount
UpdateCardReturn ==
    /\ pc = "loop"
    /\ run.i > Len(run.lastCards.v)
    /\ pc' = "done"
    /\ ret' = [NoRet EXCEPT !.op = "updateCard", !.k = "num", !.n = run.cardCount]
    /\ UNCHANGED <<calls, request, sent, earlier, inflight, dateText, parsed, now, board, nextId, boardId, thisListId, lastListId, labels, storage,
                   run, stat, reqs, faults>>

\* the start of a getStatistic call
Walk(e) ==
    /\ Used(e.st)
    /\ Commit(e.st)
    /\ stat' = e.stat
    /\ pc' = IF e.k = "walk" THEN "walk" ELSE "done"
    /\ ret' = IF e.k = "walk" THEN NoRet ELSE [NoRet EXCEPT !.op = "getStatistic", !.k = e.k]
    /\ UNCHANGED <<calls, request, sent, earlier, inflight, dateText, parsed, now, run>>

GetStatistic ==
    /\ pc = "idle"
    /\ \E w \in Windows, save \in BOOLEAN, outs \in OutSeqs(2, MaxFaults, Plain) :
        Walk(statEnter(Cur(outs), w[1], w[2], save))

\* the walk over one list
StatList ==
    /\ pc = "walk"
    /\ stat.i <= Len(stat.lists) /\ ~stat.broke
    /\ stat' = statList(stat)
    /\ UNCHANGED <<calls, request, sent, earlier, inflight, dateText, parsed, now, board, nextId, boardId, thisListId, lastListId, labels, storage,
                   pc, run, reqs, faults, ret>>

\* TrelloUI.ts:662-670: the day buckets sent to the statistics backend, return res
Returned(s) ==
    /\ Used(s)
    /\ Commit(s)
    /\ pc' = "done"
    /\ ret' = IF s.threw THEN [NoRet EXCEPT !.op = "getStatistic", !.k = "threw"]
              ELSE [NoRet EXCEPT !.op = "getStatistic", !.k = "stat", !.res = stat.res]
    /\ UNCHANGED <<calls, request, sent, earlier, inflight, dateText, parsed, now, run, stat>>

StatReturn ==
    /\ pc = "walk"
    /\ stat.i > Len(stat.lists) \/ stat.broke
    /\ \E outs \in OutSeqs(1, MaxFaults - faults, Plain) :
        Returned(IF stat.save THEN Send(Cont(outs), "getStatistic", "save", 0, 0, Plain)
                 ELSE Cont(outs))

\* Trebis.removeOldLists(lists) with the lists of the board: it returns
\* the count while the requests it issued are on their way
RemoveOldLists ==
    /\ pc = "idle"
    /\ inflight' = removeOldLists(board).issued
    /\ ret' = [NoRet EXCEPT !.op = "removeOldLists", !.k = "num",
                            !.n = removeOldLists(board).count]
    /\ pc' = "done"
    /\ reqs' = <<>>
    /\ faults' = 0
    /\ UNCHANGED <<calls, request, sent, earlier, now, board, nextId, boardId, thisListId, lastListId, labels, storage,
                   run, stat, dateText, parsed>>

\* the response to one of the requests on their way, in any order; nobody
\* waits for the result
DeleteListAnswered ==
    /\ inflight # <<>>
    /\ \E i \in 1..Len(inflight), o \in Plain :
        /\ o = "ok" \/ faults < MaxFaults
        /\ inflight' = Without(inflight, i)
        /\ board' = IF o = "ok" THEN CloseList(board, inflight[i].target) ELSE board
        /\ faults' = faults + (IF o = "ok" THEN 0 ELSE 1)
        /\ reqs' = Append(reqs, [by |-> "removeOldLists", api |-> inflight[i].api,
                                 target |-> inflight[i].target, value |-> 0,
                                 out |-> o, newId |-> 0])
    /\ UNCHANGED <<calls, request, sent, earlier, now, nextId, boardId, thisListId, lastListId, labels, storage,
                   pc, run, stat, ret, dateText, parsed>>

Next ==
    \/ GetBoardId
    \/ InitLabels
    \/ RunScriptHandler
    \/ UpdateCard
    \/ MigrateCard
    \/ UpdateCardReturn
    \/ GetStatistic
    \/ StatList
    \/ StatReturn
    \/ RemoveOldLists
    \/ DeleteListAnswered

Spec == Init /\ [][Next]_vars

(***************************************************************************)
(* utils.getDate, utils.date and the date resolution of the list walk,     *)
(* applied to texts and dates of their own.                                *)
(***************************************************************************)
\* texts handed to utils.getDate: dates with each separator, with and
\* without year, ranges, texts with a single component or none, texts with
\* components that are no numbers
Texts == {
    <<"2", "1", ".", "0", "3">>,
    <<"2", "1", ",", "0", "3">>,
    <<"2", "1", "/", "0", "3">>,
    <<"2", "1", ".", "0", "3", ".", "2", "0", "2", "4">>,
    <<"2", "1", ",", "0", "3", "/", "2", "4">>,
    <<"2", "1", ".", "0", "3", "-", "2", "5", ".", "0", "3", ".", "2", "0", "2", "4">>,
    <<"b", "a", "d", "-", "2", "5", ".", "0", "3", ".", "2", "0", "2", "4">>,
    <<"2", "5", ".", "0", "3", ".", "2", "0", "2", "4", "-", "5">>,
    <<"2", "1", "-", "2", "5", ".", "0", "3">>,
    <<"2", "1">>,
    <<>>,
    <<"a", "b", ".", "0", "3">>,
    <<"2", "1", ".", "x", "x">>,
    <<"b", "a", "d">>,
    <<"2", "1", "-", "0", "3">>,
    <<"2", "8", ".", "1", "2">>,
    <<"0", "5", ".", "0", "1">>,
    <<"2", "9", ".", "0", "2">>,
    <<"1", "5", ".", "0", "3">>,
    <<"2", "8", ",", "1", "2">>,
    <<"2", "8", ".", "1", "2", ".", "2", "4">>,
    <<"3", "1", ".", "1", "2", ".", "1", "9", "9", "9">> }

\* values of Date.now(): the first and the last day of a year, the leap day
\* (1 March where the year has none), a day and a month of one digit, in a
\* leap year, a common year and the century years 2000 and 2100
NowDays ==
    {DaysFromCivil(y, md[1], md[2]) :
        y \in {2000, 2023, 2024, 2100},
        md \in {<<1, 1>>, <<2, 29>>, <<9, 9>>, <<12, 31>>}}
    \cup {Today, DaysFromCivil(2025, 3, 1)}

\* values of oldListDate: the date the walk resolved for the list above
OldDates == {NullDate, InvalidDate,
             NewDate(2024, 0, 5), NewDate(2023, 0, 5), NewDate(2022, 11, 28),
             NewDate(2023, 11, 28), NewDate(2023, 5, 1), NewDate(2024, 7, 1),
             NewDate(2025, 1, 20)}

\* a list with this id and name
Named(id, name) == [id |-> id, name |-> name, cards |-> <<>>]

\* collections of lists for the lookup by name
DateBoards == {
    <<>>,
    <<Named(1, <<"b", "a", "d">>), Named(2, <<"2", "1", ",", "0", "3">>),
      Named(3, <<"2", "1", ".", "0", "3">>)>>,
    <<Named(1, <<"2", "1", ".", "0", "3", ".", "2", "0", "2", "4">>),
      Named(2, <<"2", "8", ".", "1", "2", ".", "2", "4">>),
      Named(3, <<"2", "1", "/", "0", "3">>)>>,
    <<Named(1, <<"2", "1", ".", "x", "x">>), Named(2, <<"2", "8", ",", "1", "2">>),
      Named(3, <<"2", "1", ".", "0", "3", ".", "2", "0", "2", "4">>)>> }

InitDate ==
    /\ now \in NowDays
    /\ board \in DateBoards
    /\ nextId = 50
    /\ InitTrebis
    /\ pc = "idle"
    /\ run = NoRun
    /\ stat = NoStat
    /\ reqs = <<>>
    /\ faults = 0
    /\ ret = NoRet
    /\ inflight = <<>>
    /\ dateText = <<>>
    /\ parsed = NullDate
    /\ earlier = <<>>
    /\ calls = NoCalls
    /\ request = NoRequest
    /\ sent = <<>>

\* a text of the caller's
WriteText ==
    /\ pc = "idle"
    /\ dateText' \in Texts
    /\ pc' = "dateText"
    /\ UNCHANGED <<calls, request, sent, earlier, now, board, nextId, boardId, thisListId, lastListId, labels, storage,
                   run, stat, reqs, faults, ret, inflight, parsed>>

\* utils.date() and utils.date(null, true): the text of today
FormatNow ==
    /\ pc = "idle"
    /\ \E isFullYear \in BOOLEAN : dateText' = date(now, isFullYear)
    /\ pc' = "dateText"
    /\ UNCHANGED <<calls, request, sent, earlier, now, board, nextId, boardId, thisListId, lastListId, labels, storage,
                   run, stat, reqs, faults, ret, inflight, parsed>>

\* utils.getDate(text)
GetDate ==
    /\ pc = "dateText"
    /\ parsed' = getDate(dateText)
    /\ pc' = "parsed"
    /\ UNCHANGED <<calls, request, sent, earlier, now, board, nextId, boardId, thisListId, lastListId, labels, storage,
                   run, stat, reqs, faults, ret, inflight, dateText>>

\* TrelloUI.ts:592-602 for a list named dateText below a list resolved to oldListDate
ResolveDate ==
    /\ pc = "dateText"
    /\ \E oldListDate \in OldDates :
        /\ stat' = [stat EXCEPT !.oldListDate = oldListDate]
        /\ parsed' = resolveDate(dateText, oldListDate)
    /\ pc' = "resolved"
    /\ UNCHANGED <<calls, request, sent, earlier, now, board, nextId, boardId, thisListId, lastListId, labels, storage,
                   run, reqs, faults, ret, inflight, dateText>>

\* Trebis.getListId(lists, name) for the lists of the board and the name dateText
GetListId ==
    /\ pc = "dateText"
    /\ thisListId' = getListId(board, dateText)
    /\ pc' = "found"
    /\ UNCHANGED <<calls, request, sent, earlier, now, board, nextId, boardId, lastListId, labels, storage,
                   run, stat, reqs, faults, ret, inflight, dateText, parsed>>

NextDate ==
    \/ WriteText
    \/ FormatNow
    \/ GetDate
    \/ ResolveDate
    \/ GetListId

SpecDate == InitDate /\ [][NextDate]_vars

(***************************************************************************)
(* Properties of the card migration.                                       *)
(***************************************************************************)
\* the step is one iteration of the loop of updateCard
IsMigrateStep == pc = "loop" /\ run.i <= Len(run.lastCards.v) /\ run'.i = run.i + 1

\* the positions of the log the step wrote
AddedReqs == (Len(reqs) + 1)..Len(reqs')

\* no label of the card is green or blue
Unfinished(card) == \A k \in 1..Len(card.labels) : card.labels[k].color \notin {"green", "blue"}

\* a card of today's list, as the run read it, has the name
NamedToday(name) ==
    run.thisCards.def /\ \E j \in 1..Len(run.thisCards.v) : run.thisCards.v[j].name = name

\* the step created no card, made no label call and left the count alone
NotMigrated ==
    /\ \A k \in AddedReqs : reqs'[k].api \notin {"addCard", "addLabels"}
    /\ run'.cardCount = run.cardCount

\* C1: an unfinished card of the previous list whose name is the name of a
\* card of today's list is not migrated: its iteration creates no card,
\* makes no label call and does not increase the count.
C1_NoDuplicateOfTodaysCard ==
    [][(IsMigrateStep /\ Unfinished(run.lastCards.v[run.i])
          /\ NamedToday(run.lastCards.v[run.i].name))
       => NotMigrated]_vars

\* the first card of the previous list was unfinished and named like a card
\* of today's list, and its iteration is over
C1_Witness ==
    /\ pc = "loop" /\ run.i = 2
    /\ Unfinished(run.lastCards.v[1])
    /\ NamedToday(run.lastCards.v[1].name)
    /\ run.cardCount = 0
    /\ \A k \in 1..Len(reqs) : reqs[k].api # "addCard"

\* C2: a card of the previous list with a green or a blue label is never
\* migrated, whatever its other labels and their order: its iteration
\* creates no card, does not tag it red and does not count it.
C2_ResolvedCardStays ==
    [][(IsMigrateStep /\ ~Unfinished(run.lastCards.v[run.i])) => NotMigrated]_vars

\* the first card bore a green label behind another label, the second a blue
\* label before another one; both iterations are over and nothing is counted
C2_Witness ==
    /\ pc = "loop" /\ run.i = 3
    /\ Len(run.lastCards.v[1].labels) = 2 /\ Len(run.lastCards.v[2].labels) = 2
    /\ run.lastCards.v[1].labels[1].color = "purple"
    /\ run.lastCards.v[1].labels[2].color = "green"
    /\ run.lastCards.v[2].labels[1].color = "blue"
    /\ run.cardCount = 0

\* the identifiers of the labels of the card that are not red
CarriedIds(card) == {card.labels[k].id : k \in {j \in 1..Len(card.labels) : card.labels[j].color # "red"}}

\* the label identifiers the step asked to put on the card id
AppliedIds(id) ==
    {reqs'[k].value : k \in {j \in AddedReqs : reqs'[j].api = "addLabels" /\ reqs'[j].target = id}}

\* C3: in every iteration that creates a card and runs to its end, the
\* labels applied to the new card are the labels of the source card that
\* are not red together with the board's yellow label, and the last call
\* of the iteration tags the source card with the board's red label.
C3_LabelsOfNewCard ==
    [][(IsMigrateStep /\ pc' = "loop")
       => \A k \in AddedReqs :
            (reqs'[k].api = "addCard" /\ reqs'[k].newId # 0)
            => /\ reqs'[k].target = run.lastCards.v[run.i].id
               /\ AppliedIds(reqs'[k].newId)
                    = CarriedIds(run.lastCards.v[run.i]) \cup {Label("yellow").id}
               /\ reqs'[Len(reqs')].api = "addLabels"
               /\ reqs'[Len(reqs')].target = run.lastCards.v[run.i].id
               /\ reqs'[Len(reqs')].value = Label("red").id
               /\ k < Len(reqs')]_vars

\* a card that bore only red was copied; the copy got yellow and nothing
\* else, the source was tagged red again
C3_Witness ==
    /\ pc = "loop" /\ run.i = 2 /\ run.cardCount = 1
    /\ run.lastCards.v[1].labels = <<Label("red")>>
    /\ \E k \in 1..Len(reqs) :
         /\ reqs[k].api = "addCard" /\ reqs[k].newId # 0
         /\ {reqs[j].value : j \in {i \in 1..Len(reqs) : reqs[i].api = "addLabels"
                                                         /\ reqs[i].target = reqs[k].newId}}
              = {Label("yellow").id}
    /\ reqs[Len(reqs)].target = run.lastCards.v[1].id
    /\ reqs[Len(reqs)].value = Label("red").id

\* the cards the run created: creations that returned an identifier
CreatedCount == Cardinality({k \in 1..Len(reqs) : reqs[k].api = "addCard" /\ reqs[k].newId # 0})

UpdateCardReturned == pc = "done" /\ ret.op = "updateCard" /\ ret.k \in {"null", "num"}

\* C4: the number updateCard returns is the number of cards of the previous
\* list whose creation returned an identifier.
C4_CountIsCreated ==
    (UpdateCardReturned /\ ret.k = "num") => ret.n = CreatedCount

\* C5: an iteration in which requests fail with a failure result or with a
\* response without identifier (no fetch is rejected) does not leave the
\* loop: the next card is processed or the count is returned.
C5_FailureStaysInLoop ==
    [][(IsMigrateStep /\ \A k \in AddedReqs : reqs'[k].out \in {"ok", "noid", "fail"})
       => pc' = "loop"]_vars

\* no list of the collection is named after one of the MaxProbe days before today
NoneBefore(lists) ==
    \A d \in 1..MaxProbe : getListId(lists, date(now - getDayInSec(d), FALSE)).nul

\* C6: whenever updateCard returns, it returns null if no board is held or
\* no list matches one of the 25 days before today, and otherwise a number
\* that is not negative; it returns 0 only if no card was created.
C6_NullOrCount ==
    UpdateCardReturned
    => /\ IF boardId = Null \/ NoneBefore(run.lists)
          THEN ret.k = "null"
          ELSE ret.k = "num" /\ ret.n >= 0
       /\ (ret.k = "num" /\ ret.n = 0) => CreatedCount = 0

\* with a board held and a single earlier list, 26 days back, null came back
C6_Witness ==
    /\ UpdateCardReturned /\ ret.k = "null" /\ boardId # Null
    /\ \E i \in 1..Len(run.lists) : run.lists[i].name = date(now - (MaxProbe + 1), FALSE)

(***************************************************************************)
(* Properties of the statistics.                                           *)
(***************************************************************************)
StatReturned == pc = "done" /\ ret.op = "getStatistic" /\ ret.k = "stat"

\* the name holds day, month and year
FullDate(name) ==
    /\ Len(split(ReplaceSeparators(name), ".")) = 3
    /\ IsValid(getDate(name))

\* the day number the name of the list stands for
DayOf(list) == getDate(list.name).t

\* labels of the color on the cards
CountColor(cards, color) ==
    SumSeq([i \in 1..Len(cards) |->
              Cardinality({k \in 1..Len(cards[i].labels) : cards[i].labels[k].color = color})])

\* labels of the color on the lists whose day lies in lo..hi
CountWindow(lists, lo, hi, color) ==
    SumSeq([i \in 1..Len(lists) |->
              IF lo <= DayOf(lists[i]) /\ DayOf(lists[i]) <= hi
              THEN CountColor(lists[i].cards, color) ELSE 0])

\* the counters are those of the lists inside the window asked for
WindowCounted ==
    \A color \in StatColors :
        ret.res[color] = CountWindow(stat.lists, getDate(stat.startValue).t,
                                     getDate(stat.endValue).t, color)

\* every list is fully dated and none is newer than the list above it
NewestFirst(lists) ==
    /\ \A i \in 1..Len(lists) : FullDate(lists[i].name)
    /\ \A i \in 1..(Len(lists) - 1) : DayOf(lists[i]) >= DayOf(lists[i + 1])

\* every list is older than the list above it, by less than half a year
StrictlyNewestFirst(lists) ==
    /\ \A i \in 1..Len(lists) : FullDate(lists[i].name)
    /\ \A i \in 1..(Len(lists) - 1) :
         /\ DayOf(lists[i]) > DayOf(lists[i + 1])
         /\ DayOf(lists[i]) - DayOf(lists[i + 1]) < HalfYearDays

\* C7 as stated: for lists ordered newest-first and named with full dates,
\* getStatistic returns for every color the number of labels on the lists
\* whose date lies in the window, bounds included.
C7_WindowCounted ==
    (StatReturned /\ NewestFirst(stat.lists)) => WindowCounted

\* C7: for lists named with full dates, each older than the one above it
\* by less than half a year, getStatistic returns for every color the
\* number of labels on the lists whose date lies in the window, bounds
\* included.
C7_WindowCountedStrict ==
    (StatReturned /\ StrictlyNewestFirst(stat.lists)) => WindowCounted

\* two lists, the upper one after the window, the lower one on its only
\* day with two yellow labels and a green one
C7_Witness ==
    /\ StatReturned /\ StrictlyNewestFirst(stat.lists) /\ Len(stat.lists) = 2
    /\ DayOf(stat.lists[1]) > getDate(stat.endValue).t
    /\ DayOf(stat.lists[2]) = getDate(stat.startValue).t
    /\ ret.res = [red |-> 0, yellow |-> 2, blue |-> 0, green |-> 1]

\* the (year, month, day) keys of the day buckets
Keys(data) ==
    UNION {UNION {{<<y, m, d>> : d \in DOMAIN data[y][m]} : m \in DOMAIN data[y]} :
           y \in DOMAIN data}

Bucket(data, key) == data[key[1]][key[2]][key[3]]

BucketOrZero(data, key) == IF key \in Keys(data) THEN Bucket(data, key) ELSE ZeroStat

RECURSIVE SumBuckets(_, _, _)
SumBuckets(data, keys, color) ==
    IF keys = {} THEN 0
    ELSE Bucket(data, CHOOSE key \in keys : TRUE)[color]
         + SumBuckets(data, keys \ {CHOOSE key \in keys : TRUE}, color)

\* C8: after a getStatistic call with isSaveOnServer the day buckets hold,
\* for every color, as many labels as the counter returned.
C8_BucketsSumToResult ==
    (StatReturned /\ stat.save)
    => \A color \in StatColors : SumBuckets(stat.data, Keys(stat.data), color) = ret.res[color]

\* the step is the walk over one list, with isSaveOnServer
IsSavingStep == pc = "walk" /\ stat.save /\ stat'.i = stat.i + 1

\* C9: while getStatistic walks with isSaveOnServer, no day bucket is
\* removed, and every bucket either keeps its counters or holds its former
\* counters (zero for a new bucket) increased by the labels the step counted.
C9_BucketsAccumulate ==
    [][IsSavingStep
       => /\ Keys(stat.data) \subseteq Keys(stat'.data)
          /\ \A key \in Keys(stat'.data) :
               \/ Bucket(stat'.data, key) = BucketOrZero(stat.data, key)
               \/ \A color \in StatColors :
                    Bucket(stat'.data, key)[color]
                      = BucketOrZero(stat.data, key)[color]
                          + stat'.res[color] - stat.res[color]]_vars

\* two lists of the same day were walked: three cards put three yellow
\* labels into the one bucket of 9 January 2024
C9_Witness ==
    /\ pc = "walk" /\ stat.save /\ stat.i = 3
    /\ Keys(stat.data) = {<<2024, 0, 9>>}
    /\ Bucket(stat.data, <<2024, 0, 9>>).yellow = 3

\* C10: with no board id held, getStatistic and updateCard return null and
\* issue no request.
C10_NoBoardNoRequest ==
    (pc = "done" /\ boardId = Null /\ ret.op \in {"updateCard", "getStatistic"})
    => ret.k = "null" /\ reqs = <<>>

\* getStatistic was called for a board with lists while no board id was held
C10_Witness ==
    /\ pc = "done" /\ boardId = Null /\ ret.op = "getStatistic"
    /\ ret.k = "null" /\ reqs = <<>> /\ ret.res = ZeroStat
    /\ Len(board) >= 2

(***************************************************************************)
(* Properties of the dates.                                                *)
(***************************************************************************)
\* the text names a day and a month and no year
NoYear(name) == Len(split(ReplaceSeparators(name), ".")) = 2

\* (y, m, d) is a date of the calendar, m in 1..12
IsCivil(y, m, d) == CivilFromDays(DaysFromCivil(y, m, d)) = [y |-> y, m |-> m, d |-> d]

\* the years in which day d of month m exists and is not after the day number t
YearsNotAfter(m, d, t) ==
    {y \in (CivilFromDays(t).y - 8)..CivilFromDays(t).y :
        IsCivil(y, m, d) /\ DaysFromCivil(y, m, d) <= t}

\* the latest date with day d and month m that is not after the date old
LatestNotAfter(m, d, old) ==
    MkDate(DaysFromCivil(CHOOSE y \in YearsNotAfter(m, d, old.t) :
                             \A z \in YearsNotAfter(m, d, old.t) : z <= y, m, d))

\* the walk resolved a name without year whose date in the current year is
\* half a year or more away from the date of the list above
FarWithoutYear ==
    /\ pc = "resolved" /\ NoYear(dateText)
    /\ IsValid(getDate(dateText)) /\ IsValid(stat.oldListDate)
    /\ \/ getDate(dateText).t - stat.oldListDate.t >= HalfYearDays
       \/ stat.oldListDate.t - getDate(dateText).t >= HalfYearDays

\* the date resolved is the latest one with the day and month of the name
\* that is not after the date of the list above
ResolvedLatest ==
    parsed = LatestNotAfter(getMonth(getDate(dateText)) + 1, getDay(getDate(dateText)),
                            stat.oldListDate)

NotLeapDay == ~(getMonth(getDate(dateText)) = 1 /\ getDay(getDate(dateText)) = 29)

Searched ==
    \/ pc = "loop"
    \/ pc = "done" /\ ret.op = "updateCard" /\ ret.k = "null" /\ boardId # Null

\* a list of the collection is named after the day d days before today
MatchesDay(lists, d) == ~getListId(lists, date(now - getDayInSec(d), FALSE)).nul

\* the nearest of the MaxProbe days before today a list is named after
NearestDay(lists) ==
    CHOOSE d \in 1..MaxProbe :
        MatchesDay(lists, d) /\ \A e \in 1..(d - 1) : ~MatchesDay(lists, e)

\* C12: the search for the previous list probes the days before today in
\* order, ends with the list of the nearest day that has one, having
\* probed just the days up to it, and ends with null after exactly
\* MaxProbe probes when none of these days has a list.
C12_SearchStops ==
    Searched
    => /\ lastListId = FindLast(run.lists, 1).id
       /\ IF \E d \in 1..MaxProbe : MatchesDay(run.lists, d)
          THEN /\ FindLast(run.lists, 1).probes = NearestDay(run.lists)
               /\ lastListId
                    = getListId(run.lists,
                                date(now - getDayInSec(NearestDay(run.lists)), FALSE))
          ELSE /\ FindLast(run.lists, 1).probes = MaxProbe
               /\ lastListId = NullListId

\* the only earlier list is 26 days back: 25 probes, null
C12_Witness ==
    /\ Searched /\ lastListId = NullListId
    /\ FindLast(run.lists, 1).probes = MaxProbe
    /\ \E i \in 1..Len(run.lists) : run.lists[i].name = date(now - (MaxProbe + 1), FALSE)

\* utils.getDate was applied to the text utils.date(now, true) wrote
ParsedFullYear == pc = "parsed" /\ dateText = date(now, TRUE)

\* C13: for a day of the year 2000 or later, utils.getDate of the text
\* utils.date writes for it with the full year is a date with the same
\* day, month and year.
C13_RoundTrip ==
    (ParsedFullYear /\ getFullYear(MkDate(now)) >= 2000)
    => /\ IsValid(parsed)
       /\ getDay(parsed) = getDay(MkDate(now))
       /\ getMonth(parsed) = getMonth(MkDate(now))
       /\ getFullYear(parsed) = getFullYear(MkDate(now))

\* 29.02.2000 was written and read back as 29 February 2000
C13_Witness ==
    /\ ParsedFullYear
    /\ dateText = <<"2", "9", ".", "0", "2", ".", "2", "0", "0", "0">>
    /\ getDay(parsed) = 29 /\ getMonth(parsed) = 1 /\ getFullYear(parsed) = 2000

\* the text, its separators replaced, holds both a point and a hyphen
IsRange(s) == includes(ReplaceSeparators(s), <<".">>) /\ includes(ReplaceSeparators(s), <<"-">>)

\* the fragments between the hyphens
Fragments(s) == split(ReplaceSeparators(s), "-")

\* the positions of the fragments utils.getDate reads as a date
DatedFragments(s) == {i \in 1..Len(Fragments(s)) : IsValid(getDate(Fragments(s)[i]))}

\* the date of the last fragment that is read as a date, null if none is
LastDated(s) ==
    IF DatedFragments(s) = {} THEN NullDate
    ELSE getDate(Fragments(s)[CHOOSE i \in DatedFragments(s) :
                                 \A j \in DatedFragments(s) : j <= i])

\* C14: for a text with both a point and a hyphen utils.getDate gives the
\* date of the last fragment between hyphens that is read as a date, and
\* null only if no fragment is.
C14_LastFragmentWins == (pc = "parsed" /\ IsRange(dateText)) => parsed = LastDated(dateText)

\* the components of a text that is no range
Components(s) ==
    split(ReplaceSeparators(s), IF includes(ReplaceSeparators(s), <<".">>) THEN "." ELSE "-")

\* the component has a character that is no digit
NotNumeric(c) == \E i \in 1..Len(c) : ~IsDigit(c[i])

\* C15: utils.getDate gives null for a text that does not hold a first and
\* a second component, and for a text with a component that is not numeric.
C15_NullWithoutDayAndMonth ==
    (/\ pc = "parsed" /\ ~IsRange(dateText)
     /\ \/ Len(Components(dateText)) < 2
        \/ \E i \in 1..Len(Components(dateText)) : NotNumeric(Components(dateText)[i]))
    => parsed = NullDate

\* the text with each comma, slash and point written as sep
WithSeparator(s, sep) == [i \in 1..Len(s) |-> IF s[i] \in {",", "/", "."} THEN sep ELSE s[i]]

\* C16: comma, slash and point are interchangeable in utils.getDate: a
\* text gives the same result with its separators written as commas, as
\* slashes or as points.
C16_SeparatorsAlike ==
    pc = "parsed" => \A sep \in {",", "/", "."} : getDate(WithSeparator(dateText, sep)) = parsed

\* 21,03 was read as 21 March of the current year, and so are 21/03 and 21.03
C16_Witness ==
    /\ pc = "parsed" /\ dateText = <<"2", "1", ",", "0", "3">>
    /\ parsed = NewDate(getFullYear(MkDate(now)), 2, 21)
    /\ getDate(<<"2", "1", "/", "0", "3">>) = parsed
    /\ getDate(<<"2", "1", ".", "0", "3">>) = parsed

(***************************************************************************)
(* Properties of the requests.                                             *)
(***************************************************************************)
\* C17: Request.send never throws: every request of an operation ends with
\* a result, {status: true, data} or {status: false, err}, and none with
\* an exception.
C17_SendNeverThrows == \A k \in 1..Len(reqs) : reqs[k].out \in {"ok", "noid", "fail"}

\* C18: the operations wait for every response: at most one request is on
\* its way at any moment, and none when an operation has returned.
C18_OneRequestAtATime ==
    /\ Len(inflight) <= 1
    /\ pc = "done" => inflight = <<>>

(***************************************************************************)
(* Further properties of the card migration.                               *)
(***************************************************************************)
\* a card was created in this run for the card at position j of the previous list
CreatedFor(j) ==
    \E k \in 1..Len(reqs) :
        /\ reqs[k].api = "addCard" /\ reqs[k].newId # 0
        /\ reqs[k].target = run.lastCards.v[j].id

\* the card of this iteration is unfinished, today's list as read at the
\* start has no card of its name, and a card was already created in this
\* run for an earlier unfinished card of the same name
SecondOfAName ==
    /\ Unfinished(run.lastCards.v[run.i])
    /\ ~NamedToday(run.lastCards.v[run.i].name)
    /\ \E j \in 1..(run.i - 1) :
         /\ run.lastCards.v[j].name = run.lastCards.v[run.i].name
         /\ Unfinished(run.lastCards.v[j])
         /\ CreatedFor(j)

\* C19: of two unfinished cards of the previous list with the same name,
\* absent from today's list at the start, only the first is migrated: the
\* iteration of the second creates no card and does not count it.
C19_SecondOfANameSkipped == [][(IsMigrateStep /\ SecondOfAName) => NotMigrated]_vars

\* the cards of the previous list tagged with the board's red label in this run
TaggedRed ==
    {reqs[k].target : k \in {j \in 1..Len(reqs) : /\ reqs[j].api = "addLabels"
                                                  /\ reqs[j].value = Label("red").id
                                                  /\ reqs[j].out = "ok"}}
        \cap {run.lastCards.v[j].id : j \in 1..Len(run.lastCards.v)}

\* C20: a card of the previous list is tagged red only after a card was
\* created for it in today's list.
C20_TaggedOnlyIfCreated ==
    (pc = "loop" /\ run.lastCards.def)
    => \A j \in 1..Len(run.lastCards.v) :
         run.lastCards.v[j].id \in TaggedRed => CreatedFor(j)

(***************************************************************************)
(* Properties of the date resolution of the list walk.                     *)
(***************************************************************************)
\* the name has fewer than three components
FewerThanThree(name) == Len(split(ReplaceSeparators(name), ".")) < 3

\* the date of the name after the half-year correction against the date of
\* the list above
CorrectedDate == getCorrectDate(stat.oldListDate, getDate(dateText))

\* the walk resolved a name of fewer than three components that reads as a
\* date, below a list with a date
ResolvedShort ==
    /\ pc = "resolved" /\ FewerThanThree(dateText)
    /\ IsValid(getDate(dateText)) /\ IsValid(stat.oldListDate)

HasYear(name) == Len(split(ReplaceSeparators(name), ".")) = 3 /\ IsValid(getDate(name))

\* the three components are separated by points
HasYearPoints(name) == Len(split(name, ".")) = 3 /\ IsValid(getDate(name))

\* there is no date above, or one less than half a year away
NearOld(d) ==
    IsValid(stat.oldListDate)
    => /\ d.t - stat.oldListDate.t < HalfYearDays
       /\ stat.oldListDate.t - d.t < HalfYearDays

IsLookupStep ==
    /\ pc = "idle" /\ thisListId = NullListId
    /\ reqs' # <<>> /\ reqs'[1].by = "updateCard"
    /\ reqs'[1].api = "getLists" /\ reqs'[1].out = "ok"

\* the lists named after today
ListsOfToday(b) == {i \in 1..Len(b) : sameList(b[i].name, getDate(b[i].name),
                                               date(now, FALSE), getDate(date(now, FALSE)))}

\* C23: when initListId looks up today's list and the board has one, that
\* list is used and no list is created.
C23_ExistingListUsed ==
    [][(IsLookupStep /\ ListsOfToday(board) # {})
       => /\ \A k \in 1..Len(reqs') : reqs'[k].api # "addList"
          /\ thisListId' = getListId(board, date(now, FALSE))]_vars

\* ---- C24 ----
\* the run in progress is the second run of the handler, and the first one
\* reported a count with every request of it answered with success
SecondAfterClean ==
    /\ Len(earlier) = 1
    /\ earlier[1].k = "num"
    /\ earlier[1].clean

Changing == {"addList", "addCard", "addLabels", "updateCard"}

\* C24: when a run of the rollover handler has reported its count with every
\* request succeeding, the run of the handler that follows it on the same day
\* sends no request that creates a list or a card, adds a label or updates a
\* card, and, when its own requests succeed, it reports 0 migrated cards.
C24_SecondRunIdle ==
    SecondAfterClean
    => /\ \A j \in 1..Len(reqs) : reqs[j].api \notin Changing
       /\ (pc = "done" /\ \A j \in 1..Len(reqs) : reqs[j].out = "ok")
          => (ret.k = "num" /\ ret.n = 0)

\* a second run that reports 0 after a first run that migrated two cards
C24_Witness ==
    /\ SecondAfterClean
    /\ earlier[1].n = 2
    /\ pc = "done" /\ ret.k = "num" /\ ret.n = 0
    /\ \A j \in 1..Len(reqs) : reqs[j].out = "ok"

(***************************************************************************)
(* Handlers interleaved on one Application object (one Trebis, one         *)
(* TrelloApi, one Request). A handler runs from the answer to the request  *)
(* it awaits up to the send of its next request; there another handler's   *)
(* continuation can run. The fields are threaded through a record t, with  *)
(* the handler's own position and locals in t.c.                           *)
(***************************************************************************)
Reads == {"getBoards", "getOrganizations", "getLists", "getLabels", "getCards"}
Posts == {"addList", "addCard", "addLabels"}
Puts == {"updateCard", "deleteList"}

\* the fields of _request when the TrelloApi method api calls send: the
\* reading methods go through _getQuery (post = null), the others set post,
\* updateCard and deleteList set customRequest = 'PUT'
Prepared(api, r) ==
    IF api \in Puts THEN [customRequest |-> "PUT", post |-> TRUE]
    ELSE IF api \in Posts THEN [r EXCEPT !.post = TRUE]
    ELSE [r EXCEPT !.post = FALSE]

\* Request._getOptions: options.method; without one fetch sends GET
_getOptions(r) ==
    IF r.customRequest # Null THEN r.customRequest
    ELSE IF r.post THEN "POST"
    ELSE "GET"

\* the fields of _request after the await of send in the method api:
\* updateCard and deleteList reset customRequest once send has returned
Settled(api, r, o) ==
    IF api \in Puts /\ o # "throw" THEN [r EXCEPT !.customRequest = Null] ELSE r

Task(p) ==
    [board |-> board, nextId |-> nextId, boardId |-> boardId, thisListId |-> thisListId,
     lastListId |-> lastListId, labels |-> labels, storage |-> storage,
     request |-> request, sent |-> <<>>, inflight |-> inflight, c |-> calls[p], p |-> p]

\* a TrelloApi method up to its await: fetch gets the method of _getOptions
issued(t, api, target) ==
    [t EXCEPT !.request = Prepared(api, t.request),
              !.sent = Append(t.sent, [by |-> t.p, api |-> api, target |-> target,
                                       method |-> _getOptions(Prepared(api, t.request))])]

\* the handler waits at position at for the answer
issue(t, api, target, at) ==
    [issued(t, api, target) EXCEPT !.c.at = at, !.c.asked = target]

\* the requests of a part that ran without another handler in between,
\* each one sent and answered before the next
RECURSIVE sendAll(_, _)
sendAll(t, rs) ==
    IF rs = <<>> THEN t
    ELSE sendAll([issued(t, Head(rs).api,
                         IF Head(rs).api = "addList" THEN t.boardId ELSE Head(rs).target)
                    EXCEPT !.request = Settled(Head(rs).api, Prepared(Head(rs).api, t.request),
                                               Head(rs).out)],
                 Tail(rs))

\* the record of the operations of Trebis, from the fields in t
stOf(t) ==
    [board |-> t.board, nextId |-> t.nextId, boardId |-> t.boardId,
     thisListId |-> t.thisListId, lastListId |-> t.lastListId, labels |-> t.labels,
     storage |-> t.storage, reqs |-> <<>>, faults |-> 0,
     outs |-> <<>>, threw |-> FALSE, void |-> FALSE, out |-> "ok"]

\* Application.ts:137-140: the handler is through, with k and the count
raceReturned(t, st, k, n) ==
    sendAll([t EXCEPT !.board = st.board, !.nextId = st.nextId,
                      !.thisListId = st.thisListId, !.lastListId = st.lastListId,
                      !.labels = st.labels, !.storage = st.storage,
                      !.c.at = IF st.threw THEN "threw" ELSE k, !.c.n = n],
            st.reqs)

\* the for loop of Trebis.updateCard (TrelloUI.ts:466-519) to its end
RECURSIVE migrateAll(_)
migrateAll(m) ==
    IF m.st.threw \/ m.run.i > Len(m.run.lastCards.v) THEN m
    ELSE migrateAll(migrateCard(m.st, m.run))

raceMigrated(t, m) == raceReturned(t, m.st, "num", m.run.cardCount)

raceEntered(t, e) ==
    IF e.k = "loop" THEN raceMigrated(t, migrateAll([st |-> e.st, run |-> e.run]))
    ELSE raceReturned(t, e.st, e.k, 0)

\* Application.ts:136: await this._trebis.updateCard(lists), here with no
\* other handler's continuation between its requests
raceUpdate(t) == raceEntered(t, updateCardEnter(stOf(t), Defined(t.c.lists)))

\* localStorage under the key `${this.boardId}_labels`
cachedLabels(t) ==
    IF t.boardId = BoardIdValue THEN t.storage.labels
    ELSE IF t.boardId = OtherBoard THEN t.storage.other
    ELSE NullLabels

\* TrelloUI.ts:367-372, key computed before the await
storeLabels(t) ==
    IF t.c.key = BoardIdValue
    THEN [t EXCEPT !.labels = BoardLabelMap, !.storage.labels = BoardLabelMap]
    ELSE [t EXCEPT !.labels = BoardLabelMap, !.storage.other = BoardLabelMap]

\* Application.ts:133-135 with Trebis.initLabels up to its await
raceLabels(t) ==
    IF t.thisListId.nul \/ t.thisListId.id = 0 THEN [t EXCEPT !.c.at = "nolist"]
    ELSE IF ~cachedLabels(t).nul THEN raceUpdate([t EXCEPT !.labels = cachedLabels(t)])
    ELSE IF t.boardId = Null THEN raceUpdate(t)
    ELSE issue([t EXCEPT !.c.key = t.boardId], "getLabels", t.boardId, "labels")

\* Application.ts:127-131 with Trebis.createList up to its await: idBoard is
\* this.boardId as it is now
raceFound(t, found) ==
    IF ~found.nul THEN raceLabels([t EXCEPT !.thisListId = found])
    ELSE IF t.boardId = Null THEN raceLabels([t EXCEPT !.thisListId = NullListId])
    ELSE issue([t EXCEPT !.thisListId = NullListId], "addList", t.boardId, "added")

\* Application.ts:124-126: the lists are in, today's list is looked up
raceLists(t, lists) ==
    raceFound([t EXCEPT !.c.lists = lists], getListId(lists, date(now, FALSE)))

\* TrelloUI.ts:380-383: the list is created on the board the request named
raceAdded(t) ==
    raceLabels([t EXCEPT !.board = IF t.c.asked = BoardIdValue
                                   THEN <<[id |-> t.nextId, name |-> date(now, FALSE),
                                           cards |-> <<>>]>> \o t.board
                                   ELSE t.board,
                         !.nextId = t.nextId + 1,
                         !.thisListId = ListId(t.nextId, NoIndex)])

\* the labels are in: Application.ts:136
raceLabelled(t) == raceUpdate(storeLabels(t))

\* Application.ts:123-124 and 167-168: the board id is resolved, getLists
\* is sent for this.boardId
raceBoard(t) == issue([t EXCEPT !.c.own = t.boardId], "getLists", t.boardId, "lists")

\* Trebis.getBoardId up to its await (TrelloUI.ts:305-315)
raceGetBoardId(t) ==
    IF t.storage.boardId # Null THEN raceBoard([t EXCEPT !.boardId = t.storage.boardId])
    ELSE issue(t, "getBoards", Null, "boards")

\* TrelloUI.ts:316-341: the page's board is among the user's boards
raceGotBoards(t) ==
    raceBoard([t EXCEPT !.boardId = BoardIdValue, !.storage.boardId = BoardIdValue])

\* what getLists answers for the board asked
listsOf(t) == IF t.c.asked = BoardIdValue THEN t.board ELSE <<>>

\* the deleteList calls of removeOldLists, none awaited
RECURSIVE issueAll(_, _)
issueAll(t, ds) ==
    IF ds = <<>> THEN t
    ELSE issueAll([issued(t, "deleteList", Head(ds).target)
                     EXCEPT !.inflight = Append(t.inflight, Head(ds))],
                  Tail(ds))

\* Application.ts:169-170: removeOldLists returns the count at once
raceRemoved(t, old) ==
    issueAll([t EXCEPT !.c.at = "num", !.c.n = old.count], old.issued)

\* boards of the organisation, as getOrganizations answers them
OrgBoards == <<BoardIdValue, OtherBoard>>

\* Application.ts:451-457: this._trebis.boardId = board.id, then
\* Trebis.getStatistic up to the await of getLists (TrelloUI.ts:570-573)
statBoard(t, k) ==
    IF k > Len(OrgBoards) THEN [t EXCEPT !.c.at = "stat"]
    ELSE issue([t EXCEPT !.boardId = OrgBoards[k], !.c.k = k],
               "getLists", OrgBoards[k], "statLists")

\* TrelloUI.ts:575-669: the walk over the lists sends nothing; the result
\* goes to ServerApi.save, which has a Request of its own
statWalked(t) == [t EXCEPT !.c.at = "save"]

\* TrelloUI.ts:574: initLabels of getStatistic up to its await
raceStatLabels(t) ==
    IF ~cachedLabels(t).nul THEN statWalked([t EXCEPT !.labels = cachedLabels(t)])
    ELSE IF t.boardId = Null THEN statWalked(t)
    ELSE issue([t EXCEPT !.c.key = t.boardId], "getLabels", t.boardId, "statLabels")

CommitTask(t) ==
    /\ board' = t.board
    /\ nextId' = t.nextId
    /\ boardId' = t.boardId
    /\ thisListId' = t.thisListId
    /\ lastListId' = t.lastListId
    /\ labels' = t.labels
    /\ storage' = t.storage
    /\ request' = t.request
    /\ sent' = t.sent
    /\ inflight' = t.inflight
    /\ calls' = [calls EXCEPT ![t.p] = t.c]
    /\ UNCHANGED <<now, pc, run, stat, reqs, ret, dateText, parsed, earlier>>

\* a handler starts, by a click
Clicked(t) ==
    /\ Cardinality({p \in Callers : calls[p].at # "idle"}) < MaxClicks
    /\ CommitTask(t)
    /\ faults' = faults

\* the answer o to the request the handler p awaits at position at: a
\* rejected fetch leaves the handler as an exception
Answered(p, at, o, t) ==
    /\ calls[p].at = at
    /\ o = "ok" \/ faults < MaxFaults
    /\ faults' = faults + (IF o = "ok" THEN 0 ELSE 1)
    /\ CommitTask(IF o = "ok" THEN t ELSE [Task(p) EXCEPT !.c.at = "threw"])

RaceOutcomes == {"ok", "throw"}

\* Application.runScriptHandler
ClickRollover ==
    \E p \in Rollovers :
        /\ calls[p].at = "idle"
        /\ Clicked(raceGetBoardId(Task(p)))

\* Application.removeHandler, both confirmations given
ClickRemove ==
    /\ calls[Remover].at = "idle"
    /\ Clicked(raceGetBoardId(Task(Remover)))

\* Application._getStatisticFullResult: getOrganizations is sent
ClickStatistic ==
    /\ calls[Statistic].at = "idle"
    /\ Clicked(issue(Task(Statistic), "getOrganizations", Null, "org"))

BoardsAnswered ==
    \E p \in Rollovers \cup {Remover}, o \in RaceOutcomes :
        Answered(p, "boards", o, raceGotBoards(Task(p)))

ListsAnswered ==
    \E p \in Rollovers, o \in RaceOutcomes :
        Answered(p, "lists", o, raceLists(Task(p), listsOf(Task(p))))

ListAdded ==
    \E p \in Rollovers, o \in RaceOutcomes :
        Answered(p, "added", o, raceAdded(Task(p)))

LabelsAnswered ==
    \E p \in Rollovers, o \in RaceOutcomes :
        Answered(p, "labels", o, raceLabelled(Task(p)))

OldListsAnswered ==
    \E o \in RaceOutcomes :
        Answered(Remover, "lists", o,
                 raceRemoved(Task(Remover), removeOldLists(listsOf(Task(Remover)))))

\* the answer to one of the deleteList requests: TrelloApi.deleteList goes
\* on after its await (part_001:115-117)
ListClosed ==
    /\ inflight # <<>>
    /\ \E i \in 1..Len(inflight), o \in RaceOutcomes :
        /\ o = "ok" \/ faults < MaxFaults
        /\ faults' = faults + (IF o = "ok" THEN 0 ELSE 1)
        /\ inflight' = Without(inflight, i)
        /\ board' = IF o = "ok" THEN CloseList(board, inflight[i].target) ELSE board
        /\ request' = Settled("deleteList", request, o)
    /\ sent' = <<>>
    /\ UNCHANGED <<now, nextId, boardId, thisListId, lastListId, labels, storage, pc, run,
                   stat, reqs, ret, dateText, parsed, earlier, calls>>

OrgAnswered ==
    \E o \in RaceOutcomes :
        Answered(Statistic, "org", o, statBoard(Task(Statistic), 1))

StatListsAnswered ==
    \E o \in RaceOutcomes :
        Answered(Statistic, "statLists", o, raceStatLabels(Task(Statistic)))

StatLabelsAnswered ==
    \E o \in RaceOutcomes :
        Answered(Statistic, "statLabels", o, statWalked(storeLabels(Task(Statistic))))

\* ServerApi.save answered: the next board of the organisation
Saved ==
    \E o \in RaceOutcomes :
        Answered(Statistic, "save", o, statBoard(Task(Statistic), calls[Statistic].k + 1))

\* a yesterday's list with a card that carries a link
LinkCard == [id |-> 32, name |-> LinkName, desc |-> <<>>, labels |-> <<Label("yellow")>>]

\* boards for the interleaved handlers: yesterday's list alone, today's list
\* above it, and a board with more lists than removeOldLists keeps
RaceBoards == {
    <<[id |-> 12, name |-> date(Today - 1, FALSE), cards |-> <<LinkCard>>]>>,
    <<[id |-> 11, name |-> date(Today, FALSE), cards |-> <<>>],
      [id |-> 12, name |-> date(Today - 1, FALSE), cards |-> <<LinkCard>>]>>,
    [i \in 1..(KeepLists + 1) |-> [id |-> 200 + i, name |-> <<"L">>, cards |-> <<>>]] }

\* the board id and the color maps are in localStorage, or nothing is
RaceStorages == {
    [boardId |-> Null, labels |-> NullLabels, other |-> NullLabels],
    [boardId |-> BoardIdValue, labels |-> BoardLabelMap, other |-> BoardLabelMap] }

InitRace ==
    /\ now = Today
    /\ board \in RaceBoards
    /\ nextId = 50
    /\ boardId = Null
    /\ thisListId = NullListId
    /\ lastListId = NullListId
    /\ labels = NullLabels
    /\ storage \in RaceStorages
    /\ pc = "idle"
    /\ run = NoRun
    /\ stat = NoStat
    /\ reqs = <<>>
    /\ faults = 0
    /\ ret = NoRet
    /\ inflight = <<>>
    /\ dateText = <<>>
    /\ parsed = NullDate
    /\ earlier = <<>>
    /\ calls = NoCalls
    /\ request = NoRequest
    /\ sent = <<>>

NextRace ==
    \/ ClickRollover
    \/ ClickRemove
    \/ ClickStatistic
    \/ BoardsAnswered
    \/ ListsAnswered
    \/ ListAdded
    \/ LabelsAnswered
    \/ OldListsAnswered
    \/ ListClosed
    \/ OrgAnswered
    \/ StatListsAnswered
    \/ StatLabelsAnswered
    \/ Saved

SpecRace == InitRace /\ [][NextRace]_vars

\* ---- C25 ----
\* positions on the board of the lists named after today
ListsOfNow == {i \in 1..Len(board) : board[i].name = date(now, FALSE)}

\* C25: however two runs of the rollover handler started on the same day
\* interleave (no other handler running), the board holds at most one list
\* named after today; on a board without such a list at most one is created.
C25_OneListForToday ==
    (calls[Statistic].at = "idle" /\ calls[Remover].at = "idle")
    => Cardinality(ListsOfNow) <= 1

\* ---- C26 ----
OnBoard == {"getLists", "addList", "getLabels"}

\* C26: with the statistics over the organisation running interleaved (and
\* no other handler), every request of a rollover run that names a board
\* (the lists read, the list created, the labels looked up) names the board
\* the run resolved at its start.
C26_OwnBoard ==
    (calls[Remover].at = "idle" /\ \E p \in Rollovers : calls[p].at = "idle")
    => \A j \in 1..Len(sent) :
         (sent[j].by \in Rollovers /\ sent[j].api \in OnBoard)
         => sent[j].target = calls[sent[j].by].own

\* ---- C27 ----
\* the HTTP method of each operation of the board service
OwnMethod(api) ==
    IF api \in Reads THEN "GET"
    ELSE IF api \in Posts THEN "POST"
    ELSE "PUT"

\* C27: every request goes to fetch with the method of its own operation,
\* whatever requests of other operations are in flight or have failed.
C27_OwnMethod ==
    \A j \in 1..Len(sent) : sent[j].method = OwnMethod(sent[j].api)

\* ---- C28 ----
\* the words of the name that read as a link and are not in the description
MissingLinks(card) ==
    {w \in Range(split(card.name, " ")) : isLink(w) /\ ~includes(card.desc, w)}

\* the description with the link line of the word w in front
WithLinkLine(card, w) ==
    <<"[", "Ssylka na zadachu", "]", "(">> \o w \o <<")", "\n">> \o card.desc

\* the iteration over the card opens with the update call that carries the
\* description with the link line, and an answer of success leaves that
\* description on the board
UpdatedFirst(card, w) ==
    /\ Len(reqs') > Len(reqs)
    /\ reqs'[Len(reqs) + 1].api = "updateCard"
    /\ reqs'[Len(reqs) + 1].target = card.id
    /\ reqs'[Len(reqs) + 1].value = WithLinkLine(card, w)
    /\ \A k \in AddedReqs : k > Len(reqs) + 1 => reqs'[k].api # "updateCard"
    /\ reqs'[Len(reqs) + 1].out = "ok"
       => \A i \in 1..Len(board') : \A j \in 1..Len(board'[i].cards) :
            board'[i].cards[j].id = card.id
            => board'[i].cards[j].desc = WithLinkLine(card, w)

\* C28: the iteration over a card of the previous list whose name has a word
\* that reads as a link and is not in the description sends, before anything
\* else, one update call with the link line in front of the description,
\* whether or not the card is migrated afterwards; the iteration over a card
\* without such a word sends no update call.
C28_LinkUpdatedFirst ==
    [][IsMigrateStep
       => /\ \A w \in MissingLinks(run.lastCards.v[run.i]) :
               UpdatedFirst(run.lastCards.v[run.i], w)
          /\ MissingLinks(run.lastCards.v[run.i]) = {}
             => \A k \in AddedReqs : reqs'[k].api # "updateCard"]_vars

\* a card with a link and a blue label: updated, and not migrated
C28_Witness ==
    /\ pc = "loop" /\ run.i = 2 /\ run.cardCount = 0
    /\ run.lastCards.v[1].name = LinkName
    /\ \E k \in 1..Len(run.lastCards.v[1].labels) :
         run.lastCards.v[1].labels[k].color = "blue"
    /\ reqs # <<>>
    /\ reqs[Len(reqs)].api = "updateCard" /\ reqs[Len(reqs)].out = "ok"
    /\ reqs[Len(reqs)].target = run.lastCards.v[1].id
    /\ \E i \in 1..Len(board) : \E j \in 1..Len(board[i].cards) :
         /\ board[i].cards[j].id = run.lastCards.v[1].id
         /\ board[i].cards[j].desc = WithLinkLine(run.lastCards.v[1], <<"h", "t", "t", "p", ":", "/", "/", "x">>)

\* ---- C29 ----
\* the list name and the target name are the same text, or both are parsed
\* to a date and the two dates are the same day of the same month and year
MatchesName(listName, name) ==
    \/ listName = name
    \/ /\ getDate(listName).k = "date" /\ getDate(name).k = "date"
       /\ getDate(listName).t = getDate(name).t

Matching == {i \in 1..Len(board) : MatchesName(board[i].name, dateText)}

\* C29: Trebis.getListId gives the id and the position of the first list, in
\* the order of the collection, whose name is the target name or is parsed
\* to the same calendar day as the target name, and null if there is none.
C29_FirstMatch ==
    pc = "found"
    => IF Matching = {} THEN thisListId = NullListId
       ELSE \E i \in Matching :
              /\ \A j \in Matching : i <= j
              /\ thisListId = ListId(board[i].id, i - 1)

\* the list found matches by its day and stands above the list that has
\* the very name
C29_Witness ==
    /\ pc = "found"
    /\ ~thisListId.nul /\ thisListId.index = 1
    /\ board[2].name # dateText
    /\ Len(board) = 3 /\ board[3].name = dateText

====
